---- MODULE Spec2Model ----
(***************************************************************************)
(* Retrieval-and-ranking core of the resume/job matcher: rag.py (embedding *)
(* ranking, Jaccard fallback, cross-encoder rerank), job_matcher.py (local *)
(* and remote match score), app.py (dashboard composite scorers) and       *)
(* resume_parser.py (entity extraction with its disk cache).               *)
(*                                                                         *)
(* Numbers the code holds in Python floats are modelled as exact rationals *)
(* [n, d] in lowest terms; strings are sequences of atoms, where an atom   *)
(* is a word in a given letter case or the blank " ".                      *)
(***************************************************************************)
EXTENDS Integers, Sequences, FiniteSets, TLC

VARIABLES
    embedder,        \* rag._EMBEDDER: "None" or "model"
    embedderFailed,  \* rag._EMBEDDER_FAILED
    reranker,        \* rag._RERANKER: "None" or "model"
    rerankerFailed,  \* rag._RERANKER_FAILED
    cache,           \* resume_parser's data/cache directory: key -> file content
    env,             \* the process environment (os.getenv) and module constants
    last,            \* the call that returned last: operation, arguments, result
    threads,         \* the threads inside rag's loaders or inside a request
                     \* handler: thread -> position and locals
    applications     \* the rows of data/applications.csv, in file order

vars ==
    <<embedder, embedderFailed, reranker, rerankerFailed, cache, env, last, threads,
      applications>>

(***************************************************************************)
(* Bounds of the model.                                                    *)
(***************************************************************************)
MaxItems == 2        \* candidates handed to one best_matches call
MaxResumeSkills == 1 \* entries of a resume's skill list
MaxJobSkills == 2    \* entries of a job's skill list

(***************************************************************************)
(* Rational arithmetic (the code's float arithmetic, taken exactly).       *)
(***************************************************************************)
RECURSIVE Gcd(_, _)
Gcd(a, b) == IF b = 0 THEN a ELSE Gcd(b, a % b)

Abs(x) == IF x < 0 THEN -x ELSE x

Rat(n, d) ==
    LET g == Gcd(Abs(n), d)
    IN  [n |-> n \div g, d |-> d \div g]

Zero == Rat(0, 1)
One == Rat(1, 1)
RInt(i) == Rat(i, 1)
RAdd(a, b) == Rat(a.n * b.d + b.n * a.d, a.d * b.d)
RSub(a, b) == Rat(a.n * b.d - b.n * a.d, a.d * b.d)
RMul(a, b) == Rat(a.n * b.n, a.d * b.d)
RDiv(a, b) == IF b.n > 0 THEN Rat(a.n * b.d, a.d * b.n) ELSE Rat(-(a.n * b.d), a.d * (-b.n))
RLe(a, b) == a.n * b.d <= b.n * a.d
RLt(a, b) == a.n * b.d < b.n * a.d
RMin(a, b) == IF RLe(a, b) THEN a ELSE b
RMax(a, b) == IF RLe(a, b) THEN b ELSE a

\* Python's round(x): to the nearest integer, a tie to the even one.
Round(x) ==
    LET f == x.n \div x.d
        r == x.n % x.d
    IN  IF 2 * r < x.d THEN f
        ELSE IF 2 * r > x.d THEN f + 1
        ELSE IF f % 2 = 0 THEN f ELSE f + 1

\* Python's int(x) of a float: truncation toward zero.
Trunc(x) == IF x.n >= 0 THEN x.n \div x.d ELSE -((-x.n) \div x.d)

(***************************************************************************)
(* Strings: str.lower, str.strip, str.split, ' '.join.                     *)
(***************************************************************************)
LowerAtom(c) ==
    CASE c = "PY" -> "py"
      [] c = "SQL" -> "sql"
      [] c = "JS" -> "js"
      [] OTHER -> c

Lower(s) == [i \in 1..Len(s) |-> LowerAtom(s[i])]

RECURSIVE LStrip(_)
LStrip(s) == IF s # <<>> /\ Head(s) = " " THEN LStrip(Tail(s)) ELSE s

RECURSIVE RStrip(_)
RStrip(s) ==
    IF s # <<>> /\ s[Len(s)] = " " THEN RStrip(SubSeq(s, 1, Len(s) - 1)) ELSE s

Strip(s) == RStrip(LStrip(s))

RECURSIVE SplitAcc(_, _, _)
SplitAcc(s, cur, out) ==
    IF s = <<>>
    THEN IF cur = <<>> THEN out ELSE Append(out, cur)
    ELSE IF Head(s) = " "
         THEN SplitAcc(Tail(s), <<>>, IF cur = <<>> THEN out ELSE Append(out, cur))
         ELSE SplitAcc(Tail(s), Append(cur, Head(s)), out)

\* t.split(): the maximal runs of non-blank atoms, in order
Split(s) == SplitAcc(s, <<>>, <<>>)

RECURSIVE Join(_)
\* ' '.join(list)
Join(list) ==
    IF list = <<>> THEN <<>>
    ELSE IF Len(list) = 1 THEN list[1]
    ELSE list[1] \o <<" ">> \o Join(Tail(list))

RECURSIVE SplitCommaAcc(_, _, _)
SplitCommaAcc(s, cur, out) ==
    IF s = <<>> THEN Append(out, cur)
    ELSE IF Head(s) = ","
         THEN SplitCommaAcc(Tail(s), <<>>, Append(out, cur))
         ELSE SplitCommaAcc(Tail(s), Append(cur, Head(s)), out)

\* s.split(','): the pieces between commas, empty pieces kept
SplitComma(s) == SplitCommaAcc(s, <<>>, <<>>)

NonEmpty(s) == s # <<>>
NonBlank(s) == s # <<>> /\ Strip(s) # <<>>

\* [f(x) for x in list]
MapSeq(list, F(_)) == [i \in 1..Len(list) |-> F(list[i])]

\* [s.strip() for s in list if s and s.strip()]
StripNonBlank(list) == MapSeq(SelectSeq(list, NonBlank), Strip)

StripLower(s) == Lower(Strip(s))

\* [s.strip().lower() for s in list if s]
StripLowerNonEmpty(list) == MapSeq(SelectSeq(list, NonEmpty), StripLower)

Range(f) == {f[i] : i \in DOMAIN f}

\* list[:k] for k >= 0
Take(list, k) == SubSeq(list, 1, IF k < Len(list) THEN k ELSE Len(list))

Min(a, b) == IF a <= b THEN a ELSE b
Max(a, b) == IF a >= b THEN a ELSE b

(***************************************************************************)
(* rag.py                                                                  *)
(***************************************************************************)
RerankPreselectDefault == 50
CoverageWeightDefault == Rat(65, 100)
BlendWeightDefault == Rat(4, 10)

\* Query and candidate texts handed to best_matches.
Texts == { <<"py", " ", "java">>, <<"PY", " ", "sql">>, <<>> }
Queries == { <<"py", " ", "sql">> }

\* What the embedding model can answer for one (query, candidate) pair: the
\* dot product of the two vectors.  Normalised vectors give values in
\* [-1, 1]; 5/4 stands for vectors the model did not normalise.
DotValues == { Rat(-1, 2), Rat(1, 2), Rat(5, 4) }

\* What the cross-encoder can answer for one pair: an unbounded logit.
RawScores == { RInt(-1), RInt(0), RInt(2) }

RagState == [embedder |-> embedder, embedderFailed |-> embedderFailed,
             reranker |-> reranker, rerankerFailed |-> rerankerFailed]

\* _load_embedder, line 13, and _load_reranker, lines 45-47: whether the
\* call goes on to construct the model
EmbedderLoadAttempted(st) == st.embedder = "None" /\ ~st.embedderFailed

RerankerLoadAttempted(st) ==
    st.reranker = "None" /\ ~st.rerankerFailed /\ env.useReranker

LoadEmbedderForgetsFailure(st, loadOK) ==
    IF st.embedder # "None" \/ st.embedderFailed THEN st
    ELSE IF loadOK THEN [st EXCEPT !.embedder = "model"]
    ELSE st

\* _load_embedder.  loadOK: the import succeeds and one of the candidate
\* model names constructs; otherwise every attempt raised.
LoadEmbedder(st, loadOK) ==
    IF st.embedder # "None" \/ st.embedderFailed THEN st
    ELSE IF loadOK THEN [st EXCEPT !.embedder = "model"]
    ELSE [st EXCEPT !.embedderFailed = TRUE, !.embedder = "None"]

\* _load_reranker.  loadOK: the import and the CrossEncoder constructor succeed.
LoadReranker(st, loadOK) ==
    IF st.reranker # "None" \/ st.rerankerFailed THEN st
    ELSE IF ~env.useReranker THEN [st EXCEPT !.rerankerFailed = TRUE]
    ELSE IF loadOK THEN [st EXCEPT !.reranker = "model"]
    ELSE [st EXCEPT !.rerankerFailed = TRUE, !.reranker = "None"]

CosineUnclamped(s) == s

\* cosine(u, v), given s = sum(a*b) of the two vectors
Cosine(s) == RMax(Zero, RMin(One, s))

RECURSIVE InsertDescTiesReversed(_, _)
InsertDescTiesReversed(sorted, x) ==
    IF sorted = <<>> THEN <<x>>
    ELSE IF RLe(Head(sorted).score, x.score) THEN <<x>> \o sorted
    ELSE <<Head(sorted)>> \o InsertDescTiesReversed(Tail(sorted), x)

RECURSIVE InsertDesc(_, _)
\* one step of list.sort(key=score, reverse=True): x goes behind every
\* element whose score is at least its own (the sort is stable)
InsertDesc(sorted, x) ==
    IF sorted = <<>> THEN <<x>>
    ELSE IF RLt(Head(sorted).score, x.score) THEN <<x>> \o sorted
    ELSE <<Head(sorted)>> \o InsertDesc(Tail(sorted), x)

RECURSIVE SortDescAcc(_, _)
SortDescAcc(list, acc) ==
    IF list = <<>> THEN acc ELSE SortDescAcc(Tail(list), InsertDesc(acc, Head(list)))

\* out.sort(key=lambda x: x[2], reverse=True)
SortDesc(list) == SortDescAcc(list, <<>>)

\* embed_texts: None when no embedder is loaded or encode raises
EmbedTexts(st, enc) == IF st.embedder = "None" \/ ~enc.ok THEN [ok |-> FALSE] ELSE enc


\* _best_matches_embeddings; pos is the candidate's place in the input list
BestMatchesEmbeddings(items, top_k, st, enc) ==
    LET embs == EmbedTexts(st, enc)
    IN  IF ~embs.ok THEN [ok |-> FALSE, list |-> <<>>]
        ELSE [ok |-> TRUE,
              list |-> Take(SortDesc([i \in 1..Len(items) |->
                          [id |-> items[i].id, text |-> items[i].text,
                           score |-> Cosine(embs.dots[items[i].text]), pos |-> i]]), top_k)]

\* tokset(t)
TokSet(t) == { Lower(w) : w \in Range(Split(t)) }

JaccardOverQuery(qs, ts) ==
    IF qs = {} \/ ts = {} THEN Zero ELSE Rat(Cardinality(qs \cap ts), Cardinality(qs))

\* the similarity _best_matches_jaccard gives one candidate
Jaccard(qs, ts) ==
    IF qs = {} \/ ts = {} THEN Zero
    ELSE LET inter == Cardinality(qs \cap ts)
             union == Cardinality(qs \cup ts)
         IN  IF union # 0 THEN Rat(inter, union) ELSE Zero

\* _best_matches_jaccard
BestMatchesJaccard(query, items, top_k) ==
    LET qs == TokSet(query)
    IN  Take(SortDesc([i \in 1..Len(items) |->
                [id |-> items[i].id, text |-> items[i].text,
                 score |-> Jaccard(qs, TokSet(items[i].text)), pos |-> i]]), top_k)

RECURSIVE RMinOf(_)
RMinOf(list) == IF Len(list) = 1 THEN list[1] ELSE RMin(list[1], RMinOf(Tail(list)))

RECURSIVE RMaxOf(_)
RMaxOf(list) == IF Len(list) = 1 THEN list[1] ELSE RMax(list[1], RMaxOf(Tail(list)))

RerankUnscaled(embRanked, scores, top_k) ==
    Take(SortDesc([i \in 1..Len(embRanked) |->
            [embRanked[i] EXCEPT !.score = scores[i]]]), top_k)

\* Phase 2 of best_matches: min-max rescale the raw scores, sort, cut
Rerank(embRanked, scores, top_k) ==
    LET lo == RMinOf(scores)
        hi == RMaxOf(scores)
        rng == IF RSub(hi, lo) # Zero THEN RSub(hi, lo) ELSE One
    IN  Take(SortDesc([i \in 1..Len(embRanked) |->
                [embRanked[i] EXCEPT !.score = RDiv(RSub(scores[i], lo), rng)]]), top_k)

BestMatchesPhase2Uncut(embRanked, useEmb, top_k, st2, o) ==
    IF st2.reranker # "None" /\ Len(embRanked) >= 2 /\ o.pred.ok
    THEN [result |-> Rerank(embRanked,
                            [i \in 1..Len(embRanked) |-> o.pred.raw[embRanked[i].text]],
                            top_k),
          path |-> "rerank", phase1 |-> embRanked, st |-> st2]
    ELSE [result |-> embRanked,
          path |-> IF useEmb THEN "embeddings" ELSE "jaccard",
          phase1 |-> embRanked, st |-> st2]

\* best_matches, from Phase 2 on, given the Phase 1 ranking
BestMatchesPhase2(embRanked, useEmb, top_k, st2, o) ==
    IF st2.reranker # "None" /\ Len(embRanked) >= 2 /\ o.pred.ok
    THEN [result |-> Rerank(embRanked,
                            [i \in 1..Len(embRanked) |-> o.pred.raw[embRanked[i].text]],
                            top_k),
          path |-> "rerank", phase1 |-> embRanked, st |-> st2]
    ELSE [result |-> Take(embRanked, top_k),
          path |-> IF useEmb THEN "embeddings" ELSE "jaccard",
          phase1 |-> embRanked, st |-> st2]

\* best_matches, Phase 1, given what _best_matches_embeddings returned
BestMatchesPhase1(byEmb, query, items, preselect) ==
    IF byEmb.ok /\ byEmb.list # <<>> THEN byEmb.list
    ELSE BestMatchesJaccard(query, items, preselect)

PreselectFloorOnly(top_k, n) == Min(env.rerankPreselect, n)

\* best_matches, lines 116-117: the preselection width
Preselect(top_k, n) == Min(Max(top_k, env.rerankPreselect), n)

\* best_matches.  o is what the models answer in this call: embLoad and
\* rrLoad (the loads, when attempted), enc (encode: raised, or the dot
\* product of each text), pred (predict: raised, or the raw score of each text).
BestMatches(query, items, top_k, st, o) ==
    IF items = <<>>
    THEN [result |-> <<>>, path |-> "empty", phase1 |-> <<>>, st |-> st]
    ELSE
    LET preselect == Preselect(top_k, Len(items))
        st1 == LoadEmbedder(st, o.embLoad)
        st2 == LoadReranker(st1, o.rrLoad)
        useEmb == st1.embedder # "None" /\ o.enc.ok /\ preselect > 0
    IN  BestMatchesPhase2(
            BestMatchesPhase1(BestMatchesEmbeddings(items, preselect, st1, o.enc),
                              query, items, preselect),
            useEmb, top_k, st2, o)

\* The answers the models can give in a call made in state st on the
\* candidates items, of which m reach Phase 2.  Both models are functions
\* of the text: equal texts get equal dot products and equal raw scores.
EncFail == [ok |-> FALSE, dots |-> <<>>]
PredFail == [ok |-> FALSE, raw |-> <<>>]

Oracles(st, items, m) ==
    LET n == Len(items)
        texts == {items[i].text : i \in 1..n}
        embLoads == IF n > 0 /\ st.embedder = "None" /\ ~st.embedderFailed
                    THEN BOOLEAN ELSE {FALSE}
        rrLoads == IF n > 0 /\ st.reranker = "None" /\ ~st.rerankerFailed /\ env.useReranker
                   THEN BOOLEAN ELSE {FALSE}
    IN  UNION { UNION {
          LET hasEmb == n > 0 /\ (st.embedder # "None" \/ el)
              hasRr == m >= 2 /\ (st.reranker # "None" \/ rl)
              encs == IF hasEmb
                      THEN {EncFail} \cup {[ok |-> TRUE, dots |-> d] : d \in [texts -> DotValues]}
                      ELSE {EncFail}
              preds == IF hasRr
                       THEN {PredFail} \cup {[ok |-> TRUE, raw |-> r] : r \in [texts -> RawScores]}
                       ELSE {PredFail}
          IN  { [embLoad |-> el, rrLoad |-> rl, enc |-> e, pred |-> p] :
                  e \in encs, p \in preds }
          : rl \in rrLoads } : el \in embLoads }

NoCall == [op |-> "none"]
Idle == last.op = "none"

\* no thread is inside a loader: calls are made one after the other
NoThreads == <<>>

\* applications.csv does not exist yet
NoApplications == <<>>

\* the model loads a call of embed_texts or of warmup attempts, started in
\* state st: _load_embedder only
LoadAttempts(st, called) ==
    [embedder |-> called /\ EmbedderLoadAttempted(st),
     reranker |-> FALSE]

\* the model loads a call of best_matches attempts: called is whether the
\* candidate list is non-empty, st1 the state _load_embedder leaves
BestMatchesAttempts(st, st1, called) ==
    [embedder |-> called /\ EmbedderLoadAttempted(st),
     reranker |-> called /\ RerankerLoadAttempted(st1)]

WarmupDefaultTexts == 3
WarmupBatch == 16

\* warmup
Warmup(texts, st, embLoad, encOK) ==
    LET st1 == LoadEmbedder(st, embLoad)
        n == IF texts = <<>> THEN WarmupDefaultTexts ELSE Len(texts)
    IN  [result |-> IF st1.embedder = "None" \/ ~encOK THEN 0 ELSE Min(n, WarmupBatch),
         st |-> st1]

\* the answers a call of embed_texts or warmup can meet in state st
EmbedOracles(st) ==
    {[embLoad |-> el, encOK |-> ok] :
        el \in (IF EmbedderLoadAttempted(st) THEN BOOLEAN ELSE {FALSE}),
        ok \in BOOLEAN}

\* A call of rag.embed_texts
EmbedTextsCall ==
    /\ Idle
    /\ \E n \in 0..MaxItems : \E texts \in [1..n -> Texts] :
       \E o \in EmbedOracles(RagState) :
       \E st1 \in {LoadEmbedder(RagState, o.embLoad)} :
            /\ embedder' = st1.embedder
            /\ embedderFailed' = st1.embedderFailed
            /\ last' = [op |-> "embed_texts", texts |-> texts, answers |-> o,
                        attempts |-> LoadAttempts(RagState, TRUE),
                        result |-> EmbedTexts(st1, [ok |-> o.encOK]).ok]
            /\ UNCHANGED <<reranker, rerankerFailed, cache, env, threads, applications>>

\* A call of rag.warmup
WarmupCall ==
    /\ Idle
    /\ \E n \in 0..MaxItems : \E texts \in [1..n -> Texts] :
       \E o \in EmbedOracles(RagState) :
       \E r \in {Warmup(texts, RagState, o.embLoad, o.encOK)} :
            /\ embedder' = r.st.embedder
            /\ embedderFailed' = r.st.embedderFailed
            /\ last' = [op |-> "warmup", texts |-> texts, answers |-> o,
                        attempts |-> LoadAttempts(RagState, TRUE),
                        result |-> r.result]
            /\ UNCHANGED <<reranker, rerankerFailed, cache, env, threads, applications>>

\* A call of rag.best_matches
BestMatchesCall ==
    /\ Idle
    /\ \E query \in Queries, n \in 0..MaxItems, top_k \in 0..MaxItems :
       \E texts \in [1..n -> Texts] :
       \E items \in {[i \in 1..n |-> [id |-> i, text |-> texts[i]]]} :
       \E o \in Oracles(RagState, items, Preselect(top_k, n)) :
       \E r \in {BestMatches(query, items, top_k, RagState, o)} :
            /\ embedder' = r.st.embedder
            /\ embedderFailed' = r.st.embedderFailed
            /\ reranker' = r.st.reranker
            /\ rerankerFailed' = r.st.rerankerFailed
            /\ last' = [op |-> "best_matches", query |-> query, items |-> items,
                        top_k |-> top_k, answers |-> o, result |-> r.result,
                        path |-> r.path, phase1 |-> r.phase1,
                        attempts |-> BestMatchesAttempts(RagState,
                                        LoadEmbedder(RagState, o.embLoad), items # <<>>)]
            /\ UNCHANGED <<cache, env, threads, applications>>

\* The caller takes the result; the process is ready for the next call.
Return ==
    /\ ~Idle
    /\ last' = NoCall
    /\ UNCHANGED <<embedder, embedderFailed, reranker, rerankerFailed, cache, env, threads, applications>>

\* The configuration a process starts with when nothing is set: no
\* GEMINI_API_KEY, USE_AI_MATCH=0, PARSE_WITH_LLM_ONLY=0, USE_RERANKER=1,
\* RERANK_PRESELECT=50, COVERAGE_WEIGHT=0.65, AI_BLEND_WEIGHT=0.4.
EnvDefault ==
    [apiKey |-> FALSE, useAiMatch |-> FALSE, llmOnly |-> FALSE, useReranker |-> TRUE,
     rerankPreselect |-> RerankPreselectDefault, covW |-> CoverageWeightDefault,
     blendW |-> BlendWeightDefault]

EnvsRag ==
    { [EnvDefault EXCEPT !.useReranker = u, !.rerankPreselect = p] :
        u \in BOOLEAN, p \in {1, RerankPreselectDefault} }

InitRag ==
    /\ embedder = "None"
    /\ embedderFailed = FALSE
    /\ reranker = "None"
    /\ rerankerFailed = FALSE
    /\ cache = <<>>
    /\ env \in EnvsRag
    /\ last = NoCall
    /\ threads = NoThreads
    /\ applications = NoApplications

NextRag == BestMatchesCall \/ EmbedTextsCall \/ WarmupCall \/ Return

SpecRag == InitRag /\ [][NextRag]_vars

(***************************************************************************)
(* rag.py under threads: _load_embedder and _load_reranker as the first    *)
(* call of each thread runs them, one statement at a time.                 *)
(***************************************************************************)
ThreadIds == {1, 2}

\* the object thread t's constructor call returns
Handle(t) == IF t = 1 THEN "model#1" ELSE "model#2"

\* position and locals of a thread: pc, the handle each loader returned to
\* it, and how often it ran each constructor
ThreadStart ==
    [pc |-> "emb_check", emb |-> "None", rr |-> "None", embCtor |-> 0, rrCtor |-> 0]

\* _load_embedder, lines 13-14: the guard
EmbedderCheck(t) ==
    /\ threads[t].pc = "emb_check"
    /\ threads' = [threads EXCEPT ![t] =
          IF embedder # "None" \/ embedderFailed
          THEN [@ EXCEPT !.pc = "rr_check", !.emb = embedder]
          ELSE [@ EXCEPT !.pc = "emb_construct"]]
    /\ UNCHANGED <<embedder, embedderFailed, reranker, rerankerFailed, cache, env, last, applications>>

\* _load_embedder, lines 15-40: SentenceTransformer(name) returns and the
\* handle is stored (lines 30-31), or every attempt raises (lines 34-40)
EmbedderConstruct(t) ==
    /\ threads[t].pc = "emb_construct"
    /\ \E loadOK \in BOOLEAN :
          IF loadOK
          THEN /\ embedder' = Handle(t)
               /\ UNCHANGED embedderFailed
               /\ threads' = [threads EXCEPT ![t] =
                     [@ EXCEPT !.pc = "rr_check", !.emb = Handle(t), !.embCtor = @ + 1]]
          ELSE /\ embedder' = "None"
               /\ embedderFailed' = TRUE
               /\ threads' = [threads EXCEPT ![t] =
                     [@ EXCEPT !.pc = "rr_check", !.emb = "None", !.embCtor = @ + 1]]
    /\ UNCHANGED <<reranker, rerankerFailed, cache, env, last, applications>>

\* _load_reranker, lines 45-49: the guards
RerankerCheck(t) ==
    /\ threads[t].pc = "rr_check"
    /\ IF reranker # "None" \/ rerankerFailed
       THEN /\ threads' = [threads EXCEPT ![t] = [@ EXCEPT !.pc = "done", !.rr = reranker]]
            /\ UNCHANGED rerankerFailed
       ELSE IF ~env.useReranker
       THEN /\ threads' = [threads EXCEPT ![t] = [@ EXCEPT !.pc = "done", !.rr = "None"]]
            /\ rerankerFailed' = TRUE
       ELSE /\ threads' = [threads EXCEPT ![t] = [@ EXCEPT !.pc = "rr_construct"]]
            /\ UNCHANGED rerankerFailed
    /\ UNCHANGED <<embedder, embedderFailed, reranker, cache, env, last, applications>>

\* _load_reranker, lines 50-58: CrossEncoder(model_name) returns and the
\* handle is stored, or it raises
RerankerConstruct(t) ==
    /\ threads[t].pc = "rr_construct"
    /\ \E loadOK \in BOOLEAN :
          IF loadOK
          THEN /\ reranker' = Handle(t)
               /\ UNCHANGED rerankerFailed
               /\ threads' = [threads EXCEPT ![t] =
                     [@ EXCEPT !.pc = "done", !.rr = Handle(t), !.rrCtor = @ + 1]]
          ELSE /\ reranker' = "None"
               /\ rerankerFailed' = TRUE
               /\ threads' = [threads EXCEPT ![t] =
                     [@ EXCEPT !.pc = "done", !.rr = "None", !.rrCtor = @ + 1]]
    /\ UNCHANGED <<embedder, embedderFailed, cache, env, last, applications>>

EnvsLoad == { [EnvDefault EXCEPT !.useReranker = u] : u \in BOOLEAN }

\* a fresh process in which every thread is about to make its first call
InitLoad ==
    /\ embedder = "None"
    /\ embedderFailed = FALSE
    /\ reranker = "None"
    /\ rerankerFailed = FALSE
    /\ cache = <<>>
    /\ env \in EnvsLoad
    /\ last = NoCall
    /\ threads = [t \in ThreadIds |-> ThreadStart]
    /\ applications = NoApplications

NextLoad ==
    \E t \in ThreadIds :
        EmbedderCheck(t) \/ EmbedderConstruct(t) \/ RerankerCheck(t) \/ RerankerConstruct(t)

SpecLoad == InitLoad /\ [][NextLoad]_vars

(***************************************************************************)
(* The composite scorers: job_matcher._local_match, and in app.py          *)
(* composite_match, the dashboard's batch loop and compute_match.          *)
(***************************************************************************)
\* the feedback line "Covers {cov}% JD skills; semantic {sem}%."
LocalFeedback(coverage, semantic) ==
    [kind |-> "covers", cov |-> Trunc(RMul(coverage, RInt(100))),
     sem |-> Trunc(RMul(semantic, RInt(100)))]

\* what a scorer's single-candidate call of best_matches gives as semantic
Semantic(ranked) == IF ranked.result # <<>> THEN ranked.result[1].score ELSE Zero

LocalScoreFloorOne(coverage, semantic) ==
    Max(1, Round(RMul(RInt(100), RAdd(RMul(env.covW, coverage),
                                      RMul(RSub(One, env.covW), semantic)))))

\* job_matcher.py lines 39-41
LocalScore(coverage, semantic) ==
    IF coverage # Zero \/ semantic # Zero
    THEN Round(RMul(RInt(100), RAdd(RMul(env.covW, coverage),
                                    RMul(RSub(One, env.covW), semantic))))
    ELSE 0

\* job_matcher.py lines 21-25
LocalCoverage(resume_info, jd_info) ==
    LET rs == {Lower(x) : x \in Range(StripNonBlank(resume_info.skills))}
        js == {Lower(x) : x \in Range(StripNonBlank(jd_info.skills))}
    IN  IF js # {} THEN Rat(Cardinality(rs \cap js), Cardinality(js)) ELSE Zero

\* _local_match, lines 36-43, given what its best_matches call returned
LocalMatchRanked(coverage, ranked) ==
    [score |-> LocalScore(coverage, Semantic(ranked)),
     fb |-> LocalFeedback(coverage, Semantic(ranked)),
     coverage |-> coverage, semantic |-> Semantic(ranked), st |-> ranked.st]

\* _local_match.  The import of rag (standard library imports only) succeeds.
LocalMatch(resume_info, jd_info, st, o) ==
    LET rskills == StripNonBlank(resume_info.skills)
        jskills == StripNonBlank(jd_info.skills)
        rtext == Join(rskills \o resume_info.education \o resume_info.experience)
        jtext == Join(jskills \o <<jd_info.description>>)
        query == IF rtext # <<>> THEN rtext ELSE Join(rskills)
    IN  LocalMatchRanked(LocalCoverage(resume_info, jd_info),
                         BestMatches(query, <<[id |-> "jd", text |-> jtext]>>, 1, st, o))

\* composite_match, lines 533-538: jd_sk, rs, js, js_set, coverage
CompositeCoverage(r_info, job) ==
    LET rskills == StripNonBlank(r_info.skills)
        jd_sk == IF job.skills # <<>> THEN SplitComma(job.skills) ELSE <<>>
        rs == {Lower(x) : x \in Range(rskills)}
        js == StripLowerNonEmpty(jd_sk)
        js_set == Range(js)
    IN  IF js # <<>> THEN Rat(Cardinality(rs \cap js_set), Len(js)) ELSE Zero

\* composite_match, lines 549-553, on the semantic value it was given
CompositeScore(coverage, semantic) ==
    IF coverage # Zero \/ semantic # Zero
    THEN Round(RMul(RInt(100), RAdd(RMul(env.covW, coverage),
                                    RMul(RSub(One, env.covW), semantic))))
    ELSE 0

\* what composite_match returns, (score, fb), with the values it was computed from
CompositeResult(coverage, semantic) ==
    [score |-> CompositeScore(coverage, semantic), fb |-> LocalFeedback(coverage, semantic),
     coverage |-> coverage, semantic |-> semantic]

\* composite_match, lines 532-553, on the semantic value its best_matches call gave
CompositeMatchGiven(r_info, job, semantic) ==
    CompositeResult(CompositeCoverage(r_info, job), semantic)

\* composite_match, given what its best_matches call returned
CompositeMatchRanked(coverage, ranked) ==
    [score |-> CompositeScore(coverage, Semantic(ranked)),
     fb |-> LocalFeedback(coverage, Semantic(ranked)),
     coverage |-> coverage, semantic |-> Semantic(ranked), st |-> ranked.st]

\* f"{job.get('title','')} {job.get('description','')} {job.get('skills','')}";
\* an empty skills cell is read as NaN and prints as nan
JobText(job) ==
    job.title \o <<" ">> \o job.description \o <<" ">>
        \o (IF job.skills # <<>> THEN job.skills ELSE <<"nan">>)

\* composite_match
CompositeMatch(r_info, job, resume_text, st, o) ==
    LET rskills == StripNonBlank(r_info.skills)
        q == IF resume_text # <<>> THEN resume_text ELSE Join(rskills)
    IN  CompositeMatchRanked(CompositeCoverage(r_info, job),
                             BestMatches(q, <<[id |-> "0", text |-> JobText(job)]>>, 1, st, o))

\* compute_match, lines 776-780
ComputeCoverage(resume_skills_list, jd_skills_list) ==
    LET rs == Range(StripLowerNonEmpty(resume_skills_list))
        js == StripLowerNonEmpty(jd_skills_list)
        js_set == Range(js)
    IN  IF js # <<>> THEN Rat(Cardinality(rs \cap js_set), Len(js)) ELSE Zero

ComputeScoreSemanticUnweighted(coverage, semantic) ==
    IF coverage # Zero \/ semantic # Zero
    THEN Round(RMul(RInt(100), RAdd(RMul(env.covW, coverage), semantic)))
    ELSE 0

\* compute_match, lines 792-794
ComputeScore(coverage, semantic) ==
    IF coverage # Zero \/ semantic # Zero
    THEN Round(RMul(RInt(100), RAdd(RMul(env.covW, coverage),
                                    RMul(RSub(One, env.covW), semantic))))
    ELSE 0

\* compute_match, given what its best_matches call returned
ComputeMatchRanked(coverage, ranked) ==
    [score |-> ComputeScore(coverage, Semantic(ranked)),
     fb |-> LocalFeedback(coverage, Semantic(ranked)),
     coverage |-> coverage, semantic |-> Semantic(ranked), st |-> ranked.st]

\* ' '.join(sorted(rs)): the order of the words does not reach any result
\* of the model (Jaccard reads a set, the embedding answer is drawn)
RECURSIVE JoinSet(_)
JoinSet(S) ==
    IF S = {} THEN <<>>
    ELSE LET x == CHOOSE y \in S : TRUE
         IN  IF S = {x} THEN x ELSE x \o <<" ">> \o JoinSet(S \ {x})

\* compute_match
ComputeMatch(resume_skills_list, jd_skills_list, job_text, resume_text, st, o) ==
    LET rs == Range(StripLowerNonEmpty(resume_skills_list))
        q == IF resume_text # <<>> THEN resume_text ELSE JoinSet(rs)
    IN  ComputeMatchRanked(ComputeCoverage(resume_skills_list, jd_skills_list),
                           BestMatches(q, <<[id |-> "j", text |-> job_text]>>, 1, st, o))

\* the dashboard's batch loop, lines 588-593
BatchCoverage(resume_info, job) ==
    LET rskills == StripNonBlank(resume_info.skills)
        jd_sk == IF job.skills # <<>> THEN SplitComma(job.skills) ELSE <<>>
        rs == {Lower(x) : x \in Range(rskills)}
        js == StripLowerNonEmpty(jd_sk)
        js_set == Range(js)
    IN  IF js # <<>> THEN Rat(Cardinality(rs \cap js_set), Len(js)) ELSE Zero

BatchScoreTruncated(coverage, semantic) ==
    IF coverage # Zero \/ semantic # Zero
    THEN Trunc(RMul(RInt(100), RAdd(RMul(env.covW, coverage),
                                    RMul(RSub(One, env.covW), semantic))))
    ELSE 0

\* the dashboard's batch loop, lines 598-601: the entry of a job whose
\* semantic score the precomputed map holds
BatchScore(coverage, semantic) ==
    IF coverage # Zero \/ semantic # Zero
    THEN Round(RMul(RInt(100), RAdd(RMul(env.covW, coverage),
                                    RMul(RSub(One, env.covW), semantic))))
    ELSE 0

\* the (score, fb) the batch loop stores for a job
BatchResult(coverage, semantic) ==
    [score |-> BatchScore(coverage, semantic), fb |-> LocalFeedback(coverage, semantic),
     coverage |-> coverage, semantic |-> semantic]

BatchEntry(resume_info, job, semantic) ==
    BatchResult(BatchCoverage(resume_info, job), semantic)

\* user_dashboard, lines 576-580: semantic_by_id.  dict assignment keeps the
\* last score of an id.
SemanticById(ranked) ==
    [jid \in {ranked[k].id : k \in 1..Len(ranked)} |->
        LET k == CHOOSE k \in 1..Len(ranked) :
                    /\ ranked[k].id = jid
                    /\ \A k2 \in (k + 1)..Len(ranked) : ranked[k2].id # jid
        IN  ranked[k].score]

\* user_dashboard, lines 585-602: the prelim list, given the result of the
\* one best_matches call over all jobs
DashboardEntries(resume_info, resume_text, jobs, ranked, semantic_by_id, o) ==
    [i \in 1..Len(jobs) |->
        IF jobs[i].id \in DOMAIN semantic_by_id
        THEN LET e == BatchEntry(resume_info, jobs[i], semantic_by_id[jobs[i].id])
             IN  [job |-> jobs[i], score |-> e.score, fb |-> e.fb, coverage |-> e.coverage,
                  semantic |-> e.semantic, batch |-> TRUE]
        ELSE LET e == CompositeMatch(resume_info, jobs[i], resume_text, ranked.st, o)
             IN  [job |-> jobs[i], score |-> e.score, fb |-> e.fb, coverage |-> e.coverage,
                  semantic |-> e.semantic, batch |-> FALSE]]

\* user_dashboard, lines 555 and 565-602, given the result of the one
\* best_matches call over all jobs
DashboardRanked(resume_info, resume_text, jobs, ranked, o) ==
    [semantic_by_id |-> SemanticById(ranked.result),
     st |-> ranked.st,
     prelim |-> DashboardEntries(resume_info, resume_text, jobs, ranked,
                                 SemanticById(ranked.result), o)]

\* user_dashboard, lines 555-602, without the AI pass: the job matches of a
\* user whose resume_info is set.  Job ids are the row numbers get_jobs
\* assigns, so str(id) and int(jid) are inverse here.
DashboardPrelim(resume_info, resume_text, jobs, st, o) ==
    IF jobs = <<>> THEN [semantic_by_id |-> <<>>, st |-> st, prelim |-> <<>>]
    ELSE
    LET q == IF resume_text # <<>> THEN resume_text ELSE Join(resume_info.skills)
        items == [i \in 1..Len(jobs) |-> [id |-> jobs[i].id, text |-> JobText(jobs[i])]]
    IN  DashboardRanked(resume_info, resume_text, jobs,
                        BestMatches(q, items, Len(items), st, o), o)

(***************************************************************************)
(* Calls of the scorers                                                    *)
(***************************************************************************)
SeqsUpTo(S, n) == UNION {[1..k -> S] : k \in 0..n}

\* Entries of skill lists: plain, upper-cased with a trailing blank, blank.
JobSkillStrings == { <<"py">>, <<"PY", " ">>, <<"sql">>, <<" ">> }
ResumeSkillStrings == { <<"py">>, <<"SQL">>, <<" ">> }
Descriptions == { <<"py", " ", "java">> }

ResumeInfos ==
    { [skills |-> sk, education |-> <<>>, experience |-> <<>>] :
        sk \in SeqsUpTo(ResumeSkillStrings, MaxResumeSkills) }

JdInfos ==
    { [skills |-> sk, description |-> d] :
        sk \in SeqsUpTo(JobSkillStrings, MaxJobSkills), d \in Descriptions }

RECURSIVE JoinComma(_)
\* the skills cell of a jobs.csv row that lists the given skills
JoinComma(list) ==
    IF list = <<>> THEN <<>>
    ELSE IF Len(list) = 1 THEN list[1]
    ELSE list[1] \o <<",">> \o JoinComma(Tail(list))

\* the rows get_jobs can return, before their ids are set
JobRows ==
    { [title |-> <<>>, description |-> d, skills |-> JoinComma(sk)] :
        sk \in SeqsUpTo(JobSkillStrings, MaxJobSkills), d \in Descriptions }

WithId(job, i) == [id |-> i, title |-> job.title, description |-> job.description,
                   skills |-> job.skills]

\* the list jd_sk the app.py scorers read from a job row
JobSkillList(job) == IF job.skills # <<>> THEN SplitComma(job.skills) ELSE <<>>

SetRag(st) ==
    /\ embedder' = st.embedder
    /\ embedderFailed' = st.embedderFailed
    /\ reranker' = st.reranker
    /\ rerankerFailed' = st.rerankerFailed

ScorerCall(op, R, J, r, o) ==
    [op |-> op, R |-> R, J |-> J, coverage |-> r.coverage, semantic |-> r.semantic,
     score |-> r.score, fb |-> r.fb, answers |-> o]

\* A call of job_matcher._local_match
LocalMatchCall ==
    /\ Idle
    /\ \E resume_info \in ResumeInfos, jd_info \in JdInfos :
       \E o \in Oracles(RagState,
                        <<[id |-> "jd",
                           text |-> Join(StripNonBlank(jd_info.skills) \o <<jd_info.description>>)]>>,
                        1) :
          \E r \in {LocalMatch(resume_info, jd_info, RagState, o)} :
              /\ SetRag(r.st)
              /\ last' = ScorerCall("_local_match", resume_info.skills, jd_info.skills, r, o)
              /\ UNCHANGED <<cache, env, threads, applications>>

\* A call of composite_match (app.py, user_dashboard)
CompositeMatchCall ==
    /\ Idle
    /\ \E r_info \in ResumeInfos, row \in JobRows :
       \E job \in {WithId(row, 0)} :
       \E o \in Oracles(RagState, <<[id |-> "0", text |-> JobText(job)]>>, 1) :
          \E r \in {CompositeMatch(r_info, job, <<>>, RagState, o)} :
              /\ SetRag(r.st)
              /\ last' = ScorerCall("composite_match", r_info.skills, JobSkillList(job), r, o)
              /\ UNCHANGED <<cache, env, threads, applications>>

\* A call of compute_match (app.py, hr_dashboard)
ComputeMatchCall ==
    /\ Idle
    /\ \E R \in SeqsUpTo(ResumeSkillStrings, MaxResumeSkills),
          J \in SeqsUpTo(JobSkillStrings, MaxJobSkills), d \in Descriptions :
       \E job_text \in {d \o <<" ">> \o JoinComma(J)} :
       \E o \in Oracles(RagState, <<[id |-> "j", text |-> job_text]>>, 1) :
          \E r \in {ComputeMatch(R, J, job_text, <<>>, RagState, o)} :
              /\ SetRag(r.st)
              /\ last' = ScorerCall("compute_match", R, J, r, o)
              /\ UNCHANGED <<cache, env, threads, applications>>

\* The skills cells of the rows the dashboard is run on: a list with a
\* repeated skill, and an empty cell.
DashboardSkillCells == { <<"py", ",", "PY", " ">>, <<>> }

\* the lists get_jobs can return: df['id'] = df.index numbers the rows from 0
DashboardJobs ==
    { [i \in 1..Len(cells) |->
          [id |-> i - 1, title |-> <<>>, description |-> <<"py", " ", "java">>,
           skills |-> cells[i]]] :
      cells \in SeqsUpTo(DashboardSkillCells, MaxItems) }

\* course_recommender.recommend_courses_rag as user_dashboard calls it before
\* the job matches (lines 560-563): when the resume has a skill and courses
\* were fetched it calls rag.best_matches on them, which loads the models.
\* c says whether courses were fetched and what the loads answer.
CourseRecsRagState(resume_skills, st, c) ==
    IF StripNonBlank(resume_skills) # <<>> /\ c.fetched
    THEN LoadReranker(LoadEmbedder(st, c.embLoad), c.rrLoad)
    ELSE st

CourseFetches(resume_skills, st) ==
    {[fetched |-> FALSE, embLoad |-> FALSE, rrLoad |-> FALSE]} \cup
    (IF StripNonBlank(resume_skills) = <<>> THEN {}
     ELSE {[fetched |-> TRUE, embLoad |-> el, rrLoad |-> rl] :
             el \in (IF st.embedder = "None" /\ ~st.embedderFailed THEN BOOLEAN ELSE {FALSE}),
             rl \in (IF st.reranker = "None" /\ ~st.rerankerFailed /\ env.useReranker
                     THEN BOOLEAN ELSE {FALSE})})

\* A request of /user/dashboard by a user whose resume_info is in the
\* session, USE_AI_MATCH off: the job matches it renders
DashboardCall ==
    /\ Idle
    /\ ~env.useAiMatch
    /\ \E resume_info \in ResumeInfos, jobs \in DashboardJobs :
       \E c \in CourseFetches(resume_info.skills, RagState) :
       \E st \in {CourseRecsRagState(resume_info.skills, RagState, c)} :
       \E o \in Oracles(st,
                        [i \in 1..Len(jobs) |-> [id |-> jobs[i].id, text |-> JobText(jobs[i])]],
                        Len(jobs)) :
          \E r \in {DashboardPrelim(resume_info, <<>>, jobs, st, o)} :
              /\ SetRag(r.st)
              /\ last' = [op |-> "user_dashboard", resume_info |-> resume_info,
                          jobs |-> jobs, semantic_by_id |-> r.semantic_by_id,
                          job_matches |-> r.prelim, answers |-> o]
              /\ UNCHANGED <<cache, env, threads, applications>>

\* Weights COVERAGE_WEIGHT can be set to: inside [0, 1] and above it.
CoverageWeights == { Zero, CoverageWeightDefault, One, Rat(3, 2) }

EnvsScore == { [EnvDefault EXCEPT !.covW = w] : w \in CoverageWeights }

InitScore ==
    /\ embedder = "None"
    /\ embedderFailed = FALSE
    /\ reranker = "None"
    /\ rerankerFailed = FALSE
    /\ cache = <<>>
    /\ env \in EnvsScore
    /\ last = NoCall
    /\ threads = NoThreads
    /\ applications = NoApplications

NextScore == LocalMatchCall \/ CompositeMatchCall \/ ComputeMatchCall \/ DashboardCall \/ Return

SpecScore == InitScore /\ [][NextScore]_vars

(***************************************************************************)
(* job_matcher.match_resume_to_jd                                          *)
(***************************************************************************)
\* The score field of the JSON object the remote model wrote: absent, a
\* string, the literal NaN (json.loads accepts it), or a number.
RemoteScores ==
    {[kind |-> "missing"], [kind |-> "string"], [kind |-> "nan"]} \cup
    {[kind |-> "number", val |-> v] : v \in {RInt(-50), RInt(50), Rat(175, 2), RInt(150)}}

\* Its feedback field: absent, the empty string, a sentence.
RemoteFeedbacks == {"missing", "empty", "text"}

\* Status codes other than 200 the service answers with
NonOkStatuses == {500}

\* What can come of requests.post and of reading its response.
RemoteOutcomes ==
    {[kind |-> k] : k \in {"network_error", "body_not_json", "no_candidates", "no_text",
                           "text_not_json", "not_object"}}
    \cup {[kind |-> "status", code |-> c] : c \in NonOkStatuses}
    \cup {[kind |-> "object", score |-> sc, feedback |-> f] :
            sc \in RemoteScores, f \in RemoteFeedbacks}

NoRemote == [kind |-> "none"]

\* what match_resume_to_jd returns: (score, feedback).  scoreKind is "int"
\* for a Python int, whose value score is, and "nan" for the float NaN.
MatchResult(score, scoreKind, fb, st) ==
    [score |-> score, scoreKind |-> scoreKind, fb |-> fb, st |-> st]

MatchLocal(local) == MatchResult(local.score, "int", local.fb, local.st)

\* match_resume_to_jd, line 107
Blend(score, lscore) ==
    Round(RAdd(RMul(env.blendW, score), RMul(RSub(One, env.blendW), RInt(lscore))))

\* match_resume_to_jd, lines 92-111: the parsed object, blended with what
\* _local_match returned
MatchBlended(obj, local) ==
    LET numeric == obj.score.kind \in {"number", "nan", "missing"}
        score == IF obj.score.kind = "number" THEN obj.score.val ELSE Zero
        feedback == IF ~numeric THEN [kind |-> "unparsed_score"]
                    ELSE IF obj.feedback = "missing" THEN [kind |-> "no_feedback"]
                    ELSE IF obj.feedback = "empty" THEN local.fb
                    ELSE [kind |-> "remote"]
    IN  IF obj.score.kind = "nan"
        THEN \* int(round(nan)) raises; line 111 returns the parsed score
             MatchResult(0, "nan",
                         IF obj.feedback = "missing" THEN [kind |-> "no_feedback"]
                         ELSE IF obj.feedback = "empty" THEN [kind |-> "empty"]
                         ELSE [kind |-> "remote"],
                         local.st)
        ELSE MatchResult(Blend(score, local.score), "int", feedback, local.st)

\* match_resume_to_jd, given what _local_match returns where the code calls it
MatchRemote(remote, local, st) ==
    IF remote.kind = "status"
    THEN MatchResult(0, "int", [kind |-> "api_failed", status |-> remote.code], st)
    ELSE IF remote.kind = "no_text"
    THEN MatchResult(0, "int", [kind |-> "no_content"], st)
    ELSE IF remote.kind = "object"
    THEN MatchBlended(remote, local)
    ELSE MatchLocal(local)

\* match_resume_to_jd
MatchResumeToJd(resume_info, jd_info, st, remote, o) ==
    IF ~env.apiKey \/ ~env.useAiMatch
    THEN MatchLocal(LocalMatch(resume_info, jd_info, st, o))
    ELSE MatchRemote(remote, LocalMatch(resume_info, jd_info, st, o), st)

\* The pairs match_resume_to_jd is run on
MatchResumeInfos ==
    { [skills |-> sk, education |-> <<>>, experience |-> <<>>] :
        sk \in {<<>>, << <<"py">> >>} }

MatchJdInfos ==
    { [skills |-> sk, description |-> <<>>] :
        sk \in {<< <<"py">> >>, << <<"sql">> >>} }

\* A call of job_matcher.match_resume_to_jd.  local is what _local_match
\* returns for the same pair under the same answers of the models.
MatchResumeToJdCall ==
    /\ Idle
    /\ \E resume_info \in MatchResumeInfos, jd_info \in MatchJdInfos :
       \E remote \in (IF env.apiKey /\ env.useAiMatch THEN RemoteOutcomes ELSE {NoRemote}) :
       \E o \in Oracles(RagState,
                        <<[id |-> "jd",
                           text |-> Join(StripNonBlank(jd_info.skills) \o <<jd_info.description>>)]>>,
                        1) :
          \E local \in {LocalMatch(resume_info, jd_info, RagState, o)} :
          \E r \in {MatchResumeToJd(resume_info, jd_info, RagState, remote, o)} :
              /\ SetRag(r.st)
              /\ last' = [op |-> "match_resume_to_jd", resume_info |-> resume_info,
                          jd_info |-> jd_info, remote |-> remote, answers |-> o,
                          score |-> r.score, scoreKind |-> r.scoreKind, fb |-> r.fb,
                          local |-> [score |-> local.score, fb |-> local.fb]]
              /\ UNCHANGED <<cache, env, threads, applications>>

\* GEMINI_API_KEY set or not, USE_AI_MATCH on or off, AI_BLEND_WEIGHT at its
\* default and at 1 (remote score only)
EnvsMatch ==
    { [EnvDefault EXCEPT !.apiKey = k, !.useAiMatch = u, !.blendW = b] :
        k \in BOOLEAN, u \in BOOLEAN, b \in {BlendWeightDefault, One} }

InitMatch ==
    /\ embedder = "None"
    /\ embedderFailed = FALSE
    /\ reranker = "None"
    /\ rerankerFailed = FALSE
    /\ cache = <<>>
    /\ env \in EnvsMatch
    /\ last = NoCall
    /\ threads = NoThreads
    /\ applications = NoApplications

NextMatch == MatchResumeToJdCall \/ Return

SpecMatch == InitMatch /\ [][NextMatch]_vars

(***************************************************************************)
(* resume_parser.py: text extraction, local and remote entity extraction   *)
(***************************************************************************)
\* The words of the model's texts in sorted() order.  "java" and "sql" are
\* in the skill vocabulary, "the" is a stop word, "bachelor" is matched by
\* the first education pattern; no text of the model has a section heading,
\* a digit or a multi-word skill, and spaCy is not installed.
Alphabet == <<"bachelor", "java", "py", "sql", "the">>
SkillVocab == {"java", "sql"}
StopWords == {"the"}
EduBachelor == <<"b.?tech|bachelor|b.sc|bsb">>

EmptyEntities == [skills |-> <<>>, experience |-> <<>>, education |-> <<>>, keywords |-> <<>>]

\* the {} of parse_resume_file and parse_jd_file
EmptyDict == <<>>

\* sorted(S) for a set of strings of at most one word
SortStrings(S) ==
    (IF <<>> \in S THEN << <<>> >> ELSE <<>>) \o
    [i \in 1..Len(SelectSeq(Alphabet, LAMBDA w : <<w>> \in S)) |->
        <<SelectSeq(Alphabet, LAMBDA w : <<w>> \in S)[i]>>]

\* _normalize_skill: strip, lower, runs of blanks to one blank
NormalizeSkill(x) == Join(Split(Lower(x)))

AliasesNodeChained ==
    << [key |-> <<"js">>, value |-> <<"javascript">>],
       [key |-> <<"node">>, value |-> <<"node.js">>],
       [key |-> <<"nodejs">>, value |-> <<"node">>] >>

\* ALIASES, in the order it is written
ALIASES ==
    << [key |-> <<"js">>, value |-> <<"javascript">>],
       [key |-> <<"node">>, value |-> <<"node.js">>],
       [key |-> <<"nodejs">>, value |-> <<"node.js">>],
       [key |-> <<"ts">>, value |-> <<"typescript">>],
       [key |-> <<"tf">>, value |-> <<"tensorflow">>],
       [key |-> <<"sklearn">>, value |-> <<"scikit-learn">>],
       [key |-> <<"pyspark">>, value |-> <<"spark">>],
       [key |-> <<"postgres">>, value |-> <<"postgresql">>],
       [key |-> <<"mongodb">>, value |-> <<"mongodb">>],
       [key |-> <<"reactjs">>, value |-> <<"react">>],
       [key |-> <<"gitlab", " ", "ci">>, value |-> <<"ci">>],
       [key |-> <<"github", " ", "actions">>, value |-> <<"ci">>],
       [key |-> <<"ci/cd">>, value |-> <<"ci">>],
       [key |-> <<"oop">>, value |-> <<"object", " ", "oriented", " ", "programming">>],
       [key |-> <<"nlp">>, value |-> <<"nlp">>],
       [key |-> <<"cv">>, value |-> <<"computer", " ", "vision">>],
       [key |-> <<"k8s">>, value |-> <<"kubernetes">>] >>

\* ALIASES.get(s2, s2)
AliasGet(s2) ==
    IF \E i \in 1..Len(ALIASES) : ALIASES[i].key = s2
    THEN ALIASES[CHOOSE i \in 1..Len(ALIASES) : ALIASES[i].key = s2].value
    ELSE s2

\* _canon_skill
CanonSkill(s) ==
    LET s2 == NormalizeSkill(s)
    IN  IF s2 = <<>> THEN <<>> ELSE AliasGet(s2)

RECURSIVE Unique(_, _)
\* the keys of freq in insertion order
Unique(tokens, seen) ==
    IF tokens = <<>> THEN <<>>
    ELSE IF Head(tokens) \in seen THEN Unique(Tail(tokens), seen)
    ELSE <<Head(tokens)>> \o Unique(Tail(tokens), seen \cup {Head(tokens)})

Count(tokens, w) == Cardinality({i \in 1..Len(tokens) : tokens[i] = w})

\* _local_extract_entities, lines 205-213: the tokens that are no stop
\* words, the most frequent first, ties in order of first occurrence
Keywords(text) ==
    LET tokens == SelectSeq(Split(Lower(text)), LAMBDA w : w[1] \notin StopWords)
        keys == Unique(tokens, {})
        scored == [i \in 1..Len(keys) |->
                     [score |-> RInt(Count(tokens, keys[i])), word |-> keys[i]]]
        sorted == SortDesc(scored)
    IN  [i \in 1..Len(sorted) |-> sorted[i].word]

\* _local_extract_entities
LocalExtractEntities(text) ==
    IF text = <<>> THEN EmptyEntities
    ELSE LET words == {w[1] : w \in Range(Split(Lower(text)))}
         IN  [skills |-> SortStrings({CanonSkill(<<w>>) : w \in words \cap SkillVocab}),
              experience |-> <<>>,
              education |-> IF "bachelor" \in words THEN <<EduBachelor>> ELSE <<>>,
              keywords |-> Keywords(text)]

\* A field of the JSON object the remote model wrote: absent, not a list, a list.
Missing == [kind |-> "missing"]
NotList == [kind |-> "notlist"]
ListOf(v) == [kind |-> "list", val |-> v]

\* lines 336-344: a key that is absent or holds no list gets []
EnsureList(f) == IF f.kind = "list" THEN f.val ELSE <<>>

ParsedObjects ==
    { [skills |-> Missing, experience |-> Missing, education |-> Missing, keywords |-> Missing],
      [skills |-> ListOf(<< <<"SQL", " ">> >>), experience |-> ListOf(<< <<"the", " ", "java">> >>),
       education |-> NotList, keywords |-> ListOf(<<>>)],
      [skills |-> NotList, experience |-> Missing, education |-> ListOf(<< <<"bachelor">> >>),
       keywords |-> ListOf(<< <<"py">> >>)] }

\* What can come of requests.post and of reading its response.
ParseOutcomes ==
    {[kind |-> k] : k \in {"network_error", "body_not_json", "no_candidates", "no_text",
                           "text_not_json", "not_object"}}
    \cup {[kind |-> "status", code |-> c] : c \in NonOkStatuses}
    \cup {[kind |-> "object", parsed |-> p] : p \in ParsedObjects}

\* lines 336-344
EnsureTypes(parsed) ==
    [skills |-> EnsureList(parsed.skills), experience |-> EnsureList(parsed.experience),
     education |-> EnsureList(parsed.education), keywords |-> EnsureList(parsed.keywords)]

\* lines 350-361: the parsed object enriched with the local extraction
Enriched(parsed, local) ==
    [skills |-> SortStrings({NormalizeSkill(x) : x \in Range(local.skills)}
                            \cup {NormalizeSkill(x) : x \in Range(parsed.skills)}),
     experience |-> Take(parsed.experience, 30),
     education |-> Take(parsed.education, 20),
     keywords |-> Take(IF parsed.keywords # <<>> THEN parsed.keywords ELSE local.keywords, 50)]

CacheKey(extract_type, text) == <<extract_type, text>>

CacheSetReplacesAll(cch, key, data, writeOK) ==
    IF writeOK THEN [k \in {key} |-> data] ELSE cch

\* _cache_set: the file is written unless the write fails
CacheSet(cch, key, data, writeOK) ==
    IF writeOK THEN [k \in DOMAIN cch \cup {key} |-> IF k = key THEN data ELSE cch[k]]
    ELSE cch

ExtractRemoteCachesFailure(text, key, cch, remote, writeOK) ==
    [result |-> EmptyEntities, cache |-> CacheSet(cch, key, EmptyEntities, TRUE)]

\* extract_resume_entities past the cache lookup, lines 318-378
ExtractRemote(text, key, cch, remote, writeOK) ==
    IF remote.kind # "object"
    THEN [result |-> EmptyEntities, cache |-> cch]
    ELSE IF env.llmOnly
    THEN [result |-> EnsureTypes(remote.parsed),
          cache |-> CacheSet(cch, key, EnsureTypes(remote.parsed), writeOK)]
    ELSE [result |-> Enriched(EnsureTypes(remote.parsed), LocalExtractEntities(text)),
          cache |-> CacheSet(cch, key,
                             Enriched(EnsureTypes(remote.parsed), LocalExtractEntities(text)),
                             writeOK)]

\* extract_resume_entities
ExtractResumeEntities(text, extract_type, cch, remote, writeOK) ==
    IF ~env.apiKey THEN [result |-> LocalExtractEntities(text), cache |-> cch]
    ELSE IF text = <<>> THEN [result |-> EmptyEntities, cache |-> cch]
    ELSE IF CacheKey(extract_type, text) \in DOMAIN cch
    THEN [result |-> cch[CacheKey(extract_type, text)], cache |-> cch]
    ELSE ExtractRemote(text, CacheKey(extract_type, text), cch, remote, writeOK)

\* A backend that reads a file: it raises, or gives the text.
ReadFails == [ok |-> FALSE]
Reads(t) == [ok |-> TRUE, text |-> t]

NoText == [none |-> TRUE]
TextOf(t) == [none |-> FALSE, text |-> t]

RECURSIVE PdfTextLastWins(_)
PdfTextLastWins(backends) ==
    IF backends = <<>> THEN <<>>
    ELSE IF PdfTextLastWins(Tail(backends)) # <<>> THEN PdfTextLastWins(Tail(backends))
    ELSE IF Head(backends).ok THEN Strip(Head(backends).text)
    ELSE <<>>

RECURSIVE PdfText(_)
\* extract_text_from_file, lines 25-50: the first backend that gives text
PdfText(backends) ==
    IF backends = <<>> THEN <<>>
    ELSE IF Head(backends).ok /\ Strip(Head(backends).text) # <<>>
    THEN Strip(Head(backends).text)
    ELSE PdfText(Tail(backends))

\* extract_text_from_file, lines 25-50: how many of the backends are called
RECURSIVE PdfTried(_)
PdfTried(backends) ==
    IF backends = <<>> THEN 0
    ELSE IF Head(backends).ok /\ Strip(Head(backends).text) # <<>> THEN 1
    ELSE 1 + PdfTried(Tail(backends))

\* extract_text_from_file
ExtractTextFromFile(file) ==
    IF file.ext = ".pdf" THEN TextOf(Strip(PdfText(file.backends)))
    ELSE IF file.ext \in {".docx", ".txt"}
    THEN IF file.backends[1].ok THEN TextOf(Strip(file.backends[1].text)) ELSE NoText
    ELSE NoText

\* parse_resume_file and parse_jd_file
ParseFile(file, extract_type, cch, remote, writeOK) ==
    IF ~ExtractTextFromFile(file).none /\ ExtractTextFromFile(file).text # <<>>
    THEN ExtractResumeEntities(ExtractTextFromFile(file).text, extract_type, cch, remote, writeOK)
    ELSE [result |-> EmptyDict, cache |-> cch]

ParseResumeFile(file, cch, remote, writeOK) == ParseFile(file, "resume", cch, remote, writeOK)

ParseJdFile(file, cch, remote, writeOK) == ParseFile(file, "job description", cch, remote, writeOK)

(***************************************************************************)
(* Calls of the extraction entry points                                    *)
(***************************************************************************)
ExtractTexts == { <<>>, <<"the", " ", "java">>, <<"bachelor", " ", "SQL", " ", "SQL">> }

Files ==
    { [ext |-> ".png", backends |-> <<>>],
      [ext |-> ".txt", backends |-> <<ReadFails>>],
      [ext |-> ".txt", backends |-> <<Reads(<<" ">>)>>],
      [ext |-> ".txt", backends |-> <<Reads(<<" ", "the", " ", "java", " ">>)>>],
      [ext |-> ".docx", backends |-> <<ReadFails>>],
      [ext |-> ".docx", backends |-> <<Reads(<<"bachelor", " ", "SQL", " ", "SQL">>)>>],
      [ext |-> ".pdf", backends |-> <<ReadFails, ReadFails, ReadFails>>],
      [ext |-> ".pdf", backends |-> <<Reads(<<>>), ReadFails, Reads(<<"the", " ", "java">>)>>] }

\* What PyPDF2, pdfminer and PyMuPDF can each make of a .pdf: an exception,
\* blank text, or text of their own.
PdfFiles ==
    { [ext |-> ".pdf", backends |-> <<a, b, c>>] :
        a \in {ReadFails, Reads(<<" ">>), Reads(<<"py", " ">>)},
        b \in {ReadFails, Reads(<<>>), Reads(<<" ", "java">>)},
        c \in {ReadFails, Reads(<<" ">>), Reads(<<"sql">>)} }

\* the answers of the remote service and of the cache write that the call
\* of extract_resume_entities on text can meet
ExtractAnswers(text, extract_type) ==
    IF env.apiKey /\ text # <<>> /\ CacheKey(extract_type, text) \notin DOMAIN cache
    THEN {[remote |-> r, writeOK |-> FALSE] : r \in ParseOutcomes} \cup
         {[remote |-> r, writeOK |-> TRUE] : r \in {x \in ParseOutcomes : x.kind = "object"}}
    ELSE {[remote |-> NoRemote, writeOK |-> FALSE]}

\* A call of resume_parser.extract_resume_entities
ExtractResumeEntitiesCall ==
    /\ Idle
    /\ \E text \in ExtractTexts, extract_type \in {"resume", "job description"} :
       \E a \in ExtractAnswers(text, extract_type) :
       \E r \in {ExtractResumeEntities(text, extract_type, cache, a.remote, a.writeOK)} :
          /\ cache' = r.cache
          /\ last' = [op |-> "extract_resume_entities", text |-> text,
                      extract_type |-> extract_type, remote |-> a.remote,
                      hit |-> CacheKey(extract_type, text) \in DOMAIN cache,
                      result |-> r.result]
          /\ UNCHANGED <<embedder, embedderFailed, reranker, rerankerFailed, env, threads, applications>>

\* A call of resume_parser.extract_text_from_file.  tried is the number of
\* backends it called.
ExtractTextFromFileCall ==
    /\ Idle
    /\ \E file \in Files \cup PdfFiles :
          last' = [op |-> "extract_text_from_file", file |-> file,
                   result |-> ExtractTextFromFile(file),
                   tried |-> IF file.ext = ".pdf" THEN PdfTried(file.backends)
                             ELSE Len(file.backends)]
    /\ UNCHANGED <<embedder, embedderFailed, reranker, rerankerFailed, cache, env, threads, applications>>

\* A call of resume_parser.parse_resume_file
ParseResumeFileCall ==
    /\ Idle
    /\ \E file \in Files :
       \E text \in {IF ExtractTextFromFile(file).none THEN <<>>
                    ELSE ExtractTextFromFile(file).text} :
       \E a \in ExtractAnswers(text, "resume") :
       \E r \in {ParseResumeFile(file, cache, a.remote, a.writeOK)} :
          /\ cache' = r.cache
          /\ last' = [op |-> "parse_resume_file", file |-> file, text |-> text,
                      extract_type |-> "resume", remote |-> a.remote,
                      hit |-> CacheKey("resume", text) \in DOMAIN cache,
                      result |-> r.result]
          /\ UNCHANGED <<embedder, embedderFailed, reranker, rerankerFailed, env, threads, applications>>

\* A call of resume_parser.parse_jd_file
ParseJdFileCall ==
    /\ Idle
    /\ \E file \in Files :
       \E text \in {IF ExtractTextFromFile(file).none THEN <<>>
                    ELSE ExtractTextFromFile(file).text} :
       \E a \in ExtractAnswers(text, "job description") :
       \E r \in {ParseJdFile(file, cache, a.remote, a.writeOK)} :
          /\ cache' = r.cache
          /\ last' = [op |-> "parse_jd_file", file |-> file, text |-> text,
                      extract_type |-> "job description", remote |-> a.remote,
                      hit |-> CacheKey("job description", text) \in DOMAIN cache,
                      result |-> r.result]
          /\ UNCHANGED <<embedder, embedderFailed, reranker, rerankerFailed, env, threads, applications>>

\* GEMINI_API_KEY set or not, PARSE_WITH_LLM_ONLY on or off
EnvsExtract ==
    { [EnvDefault EXCEPT !.apiKey = k, !.llmOnly = l] : k \in BOOLEAN, l \in BOOLEAN }

InitExtract ==
    /\ embedder = "None"
    /\ embedderFailed = FALSE
    /\ reranker = "None"
    /\ rerankerFailed = FALSE
    /\ cache = <<>>
    /\ env \in EnvsExtract
    /\ last = NoCall
    /\ threads = NoThreads
    /\ applications = NoApplications

NextExtract ==
    \/ ExtractResumeEntitiesCall
    \/ ExtractTextFromFileCall
    \/ ParseResumeFileCall
    \/ ParseJdFileCall
    \/ Return

SpecExtract == InitExtract /\ [][NextExtract]_vars

(***************************************************************************)
(* resume_parser._canon_skill applied to a string and to its own result    *)
(***************************************************************************)
MaxSkillLen == 3     \* atoms of a skill string built freely from CanonAtoms

CanonAtoms == { " ", "js", "JS", "javascript", "node", "node.js", "gitlab", "ci" }

\* s with every blank doubled
RECURSIVE DoubleBlanks(_)
DoubleBlanks(s) ==
    IF s = <<>> THEN <<>>
    ELSE (IF Head(s) = " " THEN <<" ", " ">> ELSE <<Head(s)>>) \o DoubleBlanks(Tail(s))

\* The strings _canon_skill is applied to: every key and every value of
\* ALIASES, bare, padded with blanks and with its blanks doubled, and every
\* string of at most MaxSkillLen atoms.
CanonInputs ==
    LET table == {ALIASES[i].key : i \in 1..Len(ALIASES)}
                    \cup {ALIASES[i].value : i \in 1..Len(ALIASES)}
    IN  table \cup {<<" ">> \o DoubleBlanks(t) \o <<" ">> : t \in table}
              \cup SeqsUpTo(CanonAtoms, MaxSkillLen)

\* A call of _canon_skill on a string
CanonSkillCall ==
    /\ Idle
    /\ \E s \in CanonInputs :
          last' = [op |-> "_canon_skill", first |-> s, s |-> s, result |-> CanonSkill(s),
                   again |-> FALSE]
    /\ UNCHANGED <<embedder, embedderFailed, reranker, rerankerFailed, cache, env, threads, applications>>

\* A call of _canon_skill on what the call before returned
CanonSkillAgainCall ==
    /\ last.op = "_canon_skill"
    /\ ~last.again
    /\ last' = [op |-> "_canon_skill", first |-> last.first, s |-> last.result,
                result |-> CanonSkill(last.result), again |-> TRUE]
    /\ UNCHANGED <<embedder, embedderFailed, reranker, rerankerFailed, cache, env, threads, applications>>

InitCanon ==
    /\ embedder = "None"
    /\ embedderFailed = FALSE
    /\ reranker = "None"
    /\ rerankerFailed = FALSE
    /\ cache = <<>>
    /\ env = EnvDefault
    /\ last = NoCall
    /\ threads = NoThreads
    /\ applications = NoApplications

NextCanon == CanonSkillCall \/ CanonSkillAgainCall \/ Return

SpecCanon == InitCanon /\ [][NextCanon]_vars

(***************************************************************************)
(* skill_gap.py and course_recommender.py                                  *)
(***************************************************************************)
\* What the request of find_skill_gap can meet: an exception or a non-200
\* status, or a JSON object whose 'missing_skills' is a list, is no list, or
\* is absent.
GapOutcomes ==
    { [kind |-> "error"], [kind |-> "status"],
      [kind |-> "object", missing_skills |-> ListOf(<< <<"SQL">> >>)],
      [kind |-> "object", missing_skills |-> NotList],
      [kind |-> "object", missing_skills |-> Missing] }

\* the orders a list built by iterating over the set S can have
Orderings(S) == { f \in [1..Cardinality(S) -> S] : Range(f) = S }

\* find_skill_gap.  The result is the list it returns, requests the number
\* of requests.post calls it made.
FindSkillGap(resume_skills, jd_skills, remote, order) ==
    IF ~env.apiKey
    THEN [result |-> order, requests |-> 0]
    ELSE IF resume_skills = <<>> \/ jd_skills = <<>>
    THEN [result |-> <<>>, requests |-> 0]
    ELSE [result |-> IF remote.kind = "object" /\ remote.missing_skills.kind # "notlist"
                     THEN EnsureList(remote.missing_skills) ELSE <<>>,
          requests |-> 1]

\* the orders of the local set difference js - rs, lines 17-19
GapOrders(resume_skills, jd_skills) ==
    Orderings(Range(StripLowerNonEmpty(jd_skills)) \ Range(StripLowerNonEmpty(resume_skills)))

\* data/courses.csv as the model has it; a row's skills cell can be empty
\* (pandas reads it as a float)
EmptyCell == [kind |-> "nan"]
CourseCsv ==
    << [title |-> <<"java">>, url |-> <<"u1">>, skills |-> [kind |-> "str", val |-> <<"java">>]],
       [title |-> <<"sql">>, url |-> <<"u2">>,
        skills |-> [kind |-> "str", val |-> <<"py", ",", " ", "SQL">>]],
       [title |-> <<"the">>, url |-> <<"u3">>, skills |-> EmptyCell] >>

\* What pd.read_csv makes of courses.csv: the file is not there, or a frame
\* with the given columns.
CsvMissing == [found |-> FALSE, columns |-> {}, rows |-> <<>>]
CsvWith(columns) == [found |-> TRUE, columns |-> columns, rows |-> CourseCsv]

\* recommend_courses: the overlap of a row's skills with the missing skills;
\* row.get('skills') is None when the frame has no skills column
CourseOverlap(row, columns, missing_skills) ==
    IF "skills" \notin columns \/ row.skills.kind # "str" THEN 0
    ELSE Cardinality(Range(MapSeq(SplitComma(row.skills.val), StripLower))
                        \cap Range(MapSeq(missing_skills, StripLower)))

\* recommend_courses.  raised: row['title'] or row['url'] of a row that
\* teaches a missing skill raises KeyError, which nothing catches.
RecommendCourses(missing_skills, csv, top_n) ==
    IF ~csv.found THEN [raised |-> FALSE, list |-> <<>>]
    ELSE LET rows == csv.rows
             scored == [i \in 1..Len(rows) |->
                           [title |-> rows[i].title, url |-> rows[i].url,
                            score |-> RInt(CourseOverlap(rows[i], csv.columns, missing_skills))]]
             ranked == Take(SortDesc(SelectSeq(scored, LAMBDA c : c.score.n > 0)), top_n)
         IN  IF ranked # <<>> /\ ~({"title", "url"} \subseteq csv.columns)
             THEN [raised |-> TRUE, list |-> <<>>]
             ELSE [raised |-> FALSE,
                   list |-> [i \in 1..Len(ranked) |->
                               [title |-> ranked[i].title, url |-> ranked[i].url]]]

\* the key of _cache_path: the skills asked for and the provider
CourseCacheKey(skills) == <<"courses", skills, "coursera">>

\* What one requests.get of fetch_courses_external can meet: an exception or
\* a non-200 status, or the 'elements' of the answer.
CourseElements ==
    << [name |-> <<"py", " ", "java">>, slug |-> <<"py">>],
       [name |-> <<>>, slug |-> <<>>],
       [name |-> <<"py", " ", "java">>, slug |-> <<>>] >>

CourseAnswers ==
    { [ok |-> FALSE, elements |-> <<>>], [ok |-> TRUE, elements |-> <<>>],
      [ok |-> TRUE, elements |-> CourseElements] }

\* the course of one element, lines 92-100; title '' is skipped
CourseOf(e) ==
    LET title == IF e.name # <<>> THEN e.name ELSE e.slug
    IN  [title |-> title,
         url |-> IF e.slug # <<>> THEN <<"https://www.coursera.org/learn/">> \o e.slug
                 ELSE <<"https://www.coursera.org">>,
         description |-> <<>>]

RECURSIVE CoursesOut(_)
CoursesOut(answers) ==
    IF answers = <<>> THEN <<>>
    ELSE (IF Head(answers).ok
          THEN SelectSeq(MapSeq(Head(answers).elements, CourseOf), LAMBDA c : c.title # <<>>)
          ELSE <<>>) \o CoursesOut(Tail(answers))

\* lines 103-110: the first course of every title
RECURSIVE UniqueCourses(_, _)
UniqueCourses(courses, seen) ==
    IF courses = <<>> THEN <<>>
    ELSE LET t == Strip(Head(courses).title)
         IN  IF t # <<>> /\ t \notin seen
             THEN <<Head(courses)>> \o UniqueCourses(Tail(courses), seen \cup {t})
             ELSE UniqueCourses(Tail(courses), seen)

FetchCoursesExternalSkipsEmpty(skills, cch, answers, writeOK) ==
    LET sk == SelectSeq(skills, NonEmpty)
        key == CourseCacheKey(sk)
    IN  IF sk = <<>> THEN [result |-> <<>>, requests |-> 0, cache |-> cch]
        ELSE IF key \in DOMAIN cch THEN [result |-> cch[key], requests |-> 0, cache |-> cch]
        ELSE LET uniq == UniqueCourses(CoursesOut(answers), {})
             IN  [result |-> uniq, requests |-> Len(sk),
                  cache |-> CacheSet(cch, key, uniq, writeOK /\ uniq # <<>>)]

\* fetch_courses_external with provider 'coursera'.  answers[i] is what the
\* request for the i-th skill meets; requests counts the requests.get calls.
FetchCoursesExternal(skills, cch, answers, writeOK) ==
    LET sk == SelectSeq(skills, NonEmpty)
        key == CourseCacheKey(sk)
    IN  IF sk = <<>> THEN [result |-> <<>>, requests |-> 0, cache |-> cch]
        ELSE IF key \in DOMAIN cch THEN [result |-> cch[key], requests |-> 0, cache |-> cch]
        ELSE LET uniq == UniqueCourses(CoursesOut(answers), {})
             IN  [result |-> uniq, requests |-> Len(sk),
                  cache |-> CacheSet(cch, key, uniq, writeOK)]

\* top_n of the call in user_dashboard
RecommendTopN == 10

\* the candidates recommend_courses_rag hands to rag.best_matches
CourseItems(courses) ==
    [i \in 1..Len(courses) |->
        [id |-> i - 1, text |-> courses[i].title \o <<" ">> \o courses[i].description]]

\* recommend_courses_rag, given what fetch_courses_external returned
RecommendCoursesRanked(skills, fetched, csv, top_n, st, o) ==
    IF fetched.result = <<>>
    THEN [result |-> RecommendCourses(skills, csv, top_n).list,
          raised |-> RecommendCourses(skills, csv, top_n).raised, st |-> st]
    ELSE LET courses == fetched.result
             ranked == BestMatches(Join(skills), CourseItems(courses), top_n, st, o)
         IN  [result |-> [i \in 1..Len(ranked.result) |->
                             [title |-> courses[ranked.result[i].id + 1].title,
                              url |-> courses[ranked.result[i].id + 1].url,
                              description |-> courses[ranked.result[i].id + 1].description,
                              score |-> Round(RMul(ranked.result[i].score, RInt(100)))]],
              raised |-> FALSE, st |-> ranked.st]

\* The skill lists the course calls are made with: empty, one skill, the
\* skill twice, a skill and a blank entry, two skills, an empty entry and
\* a skill.
CourseSkillLists ==
    { <<>>, << <<"py">> >>, << <<"py">>, <<"py">> >>, << <<"py">>, <<" ">> >>,
      << <<"SQL">>, <<"py">> >>, << <<>>, <<"sql">> >> }

GapSkillLists == { <<>>, << <<"py">> >>, << <<"PY", " ">>, <<"sql">> >>, << <<"java">>, <<"sql">> >> }

\* courses.csv absent, complete, and without a skills, a title or a url column
CourseCsvs ==
    { CsvMissing, CsvWith({"title", "url", "skills"}), CsvWith({"title", "url"}),
      CsvWith({"url", "skills"}), CsvWith({"title", "skills"}) }

\* top_n of recommend_courses when the caller gives none
RecommendCoursesTopN == 5

\* the answers the requests of one fetch can meet
FetchAnswers(skills, cch) ==
    LET sk == SelectSeq(skills, NonEmpty)
    IN  IF sk = <<>> \/ CourseCacheKey(sk) \in DOMAIN cch THEN {<<>>}
        ELSE [1..Len(sk) -> CourseAnswers]

\* A call of skill_gap.find_skill_gap
FindSkillGapCall ==
    /\ Idle
    /\ \E resume_skills \in GapSkillLists, jd_skills \in GapSkillLists :
       \E remote \in (IF env.apiKey /\ resume_skills # <<>> /\ jd_skills # <<>>
                      THEN GapOutcomes ELSE {NoRemote}) :
       \E order \in (IF env.apiKey THEN {<<>>} ELSE GapOrders(resume_skills, jd_skills)) :
       \E r \in {FindSkillGap(resume_skills, jd_skills, remote, order)} :
            /\ last' = [op |-> "find_skill_gap", resume_skills |-> resume_skills,
                        jd_skills |-> jd_skills, remote |-> remote,
                        result |-> r.result, requests |-> r.requests]
            /\ UNCHANGED <<embedder, embedderFailed, reranker, rerankerFailed, cache, env, threads, applications>>

\* A call of course_recommender.recommend_courses
RecommendCoursesCall ==
    /\ Idle
    /\ \E missing_skills \in GapSkillLists, csv \in CourseCsvs :
       \E r \in {RecommendCourses(missing_skills, csv, RecommendCoursesTopN)} :
            last' = [op |-> "recommend_courses", missing_skills |-> missing_skills,
                     csv |-> csv, result |-> r.list, raised |-> r.raised, requests |-> 0]
    /\ UNCHANGED <<embedder, embedderFailed, reranker, rerankerFailed, cache, env, threads, applications>>

\* A call of course_recommender.fetch_courses_external
FetchCoursesExternalCall ==
    /\ Idle
    /\ \E skills \in CourseSkillLists, writeOK \in BOOLEAN :
       \E answers \in FetchAnswers(skills, cache) :
       \E r \in {FetchCoursesExternal(skills, cache, answers, writeOK)} :
            /\ cache' = r.cache
            /\ last' = [op |-> "fetch_courses_external", skills |-> skills,
                        answers |-> answers, writeOK |-> writeOK, result |-> r.result,
                        requests |-> r.requests]
            /\ UNCHANGED <<embedder, embedderFailed, reranker, rerankerFailed, env, threads, applications>>

\* A call of course_recommender.recommend_courses_rag
RecommendCoursesRagCall ==
    /\ Idle
    /\ \E skills \in CourseSkillLists, writeOK \in BOOLEAN, csv \in CourseCsvs :
       \E sk \in {StripNonBlank(skills)} :
       \E answers \in FetchAnswers(sk, cache) :
       \E f \in {FetchCoursesExternal(sk, cache, answers, writeOK)} :
       \E o \in Oracles(RagState, CourseItems(f.result),
                        Preselect(RecommendTopN, Len(f.result))) :
       \E r \in {RecommendCoursesRanked(sk, f, csv, RecommendTopN, RagState, o)} :
            /\ SetRag(r.st)
            /\ cache' = f.cache
            /\ last' = [op |-> "recommend_courses_rag", skills |-> skills, csv |-> csv,
                        answers |-> answers, writeOK |-> writeOK, fetched |-> f.result,
                        result |-> r.result, raised |-> r.raised,
                        requests |-> f.requests]
            /\ UNCHANGED <<env, threads, applications>>

\* GEMINI_API_KEY set or not
EnvsCourses == { [EnvDefault EXCEPT !.apiKey = k] : k \in BOOLEAN }

InitCourses ==
    /\ embedder = "None"
    /\ embedderFailed = FALSE
    /\ reranker = "None"
    /\ rerankerFailed = FALSE
    /\ cache = <<>>
    /\ env \in EnvsCourses
    /\ last = NoCall
    /\ threads = NoThreads
    /\ applications = NoApplications

NextCourses ==
    \/ FindSkillGapCall
    \/ RecommendCoursesCall
    \/ FetchCoursesExternalCall
    \/ RecommendCoursesRagCall
    \/ Return

SpecCourses == InitCourses /\ [][NextCourses]_vars

(***************************************************************************)
(* The requests of the core while they wait for the remote service          *)
(***************************************************************************)
MaxWait == 31        \* seconds a request without a timeout is followed for

\* the timeout arguments of requests.post and requests.get, in seconds
ExtractTimeout == 30
SkillGapTimeout == 20
CourseTimeout == 10

\* a request in flight: the function that issued it, whether it was given
\* a timeout and which, the seconds waited, and the requests still to issue
Waiting(fn, bounded, timeout, left) ==
    [op |-> fn, phase |-> "waiting", bounded |-> bounded, timeout |-> timeout,
     elapsed |-> 0, left |-> left, timeouts |-> 0]

IsWaiting == last.op # "none" /\ last.phase = "waiting"

\* extract_resume_entities reaches requests.post, line 318
ExtractPost ==
    /\ Idle
    /\ env.apiKey
    /\ last' = Waiting("extract_resume_entities", TRUE, ExtractTimeout, 0)
    /\ UNCHANGED <<embedder, embedderFailed, reranker, rerankerFailed, cache, env, threads, applications>>

\* match_resume_to_jd reaches requests.post, line 72: no timeout argument
MatchPost ==
    /\ Idle
    /\ env.apiKey /\ env.useAiMatch
    /\ last' = Waiting("match_resume_to_jd", FALSE, 0, 0)
    /\ UNCHANGED <<embedder, embedderFailed, reranker, rerankerFailed, cache, env, threads, applications>>

\* find_skill_gap reaches requests.post, line 44
SkillGapPost ==
    /\ Idle
    /\ env.apiKey
    /\ last' = Waiting("find_skill_gap", TRUE, SkillGapTimeout, 0)
    /\ UNCHANGED <<embedder, embedderFailed, reranker, rerankerFailed, cache, env, threads, applications>>

\* fetch_courses_external reaches the requests.get of its first skill
CourseGet ==
    /\ Idle
    /\ \E skills \in CourseSkillLists :
          /\ SelectSeq(skills, NonEmpty) # <<>>
          /\ last' = Waiting("fetch_courses_external", TRUE, CourseTimeout,
                             Len(SelectSeq(skills, NonEmpty)) - 1)
    /\ UNCHANGED <<embedder, embedderFailed, reranker, rerankerFailed, cache, env, threads, applications>>

\* the handler goes on after a request ended: fetch_courses_external issues
\* the request of its next skill, every other handler finishes
AfterRequest(timedOut) ==
    IF last.left > 0
    THEN [last EXCEPT !.elapsed = 0, !.left = @ - 1,
                      !.timeouts = @ + (IF timedOut THEN 1 ELSE 0)]
    ELSE [last EXCEPT !.phase = "done", !.timeouts = @ + (IF timedOut THEN 1 ELSE 0)]

\* a second passes with no answer
Tick ==
    /\ IsWaiting
    /\ IF last.bounded THEN last.elapsed < last.timeout ELSE last.elapsed < MaxWait
    /\ last' = [last EXCEPT !.elapsed = @ + 1]
    /\ UNCHANGED <<embedder, embedderFailed, reranker, rerankerFailed, cache, env, threads, applications>>

\* the timeout of the request expires: requests raises, the handler catches
Expire ==
    /\ IsWaiting
    /\ last.bounded
    /\ last.elapsed = last.timeout
    /\ last' = AfterRequest(TRUE)
    /\ UNCHANGED <<embedder, embedderFailed, reranker, rerankerFailed, cache, env, threads, applications>>

\* the remote service answers, or the connection fails
Respond ==
    /\ IsWaiting
    /\ last' = AfterRequest(FALSE)
    /\ UNCHANGED <<embedder, embedderFailed, reranker, rerankerFailed, cache, env, threads, applications>>

\* the handler returns to its caller
RequestReturn ==
    /\ ~Idle
    /\ last.phase = "done"
    /\ last' = NoCall
    /\ UNCHANGED <<embedder, embedderFailed, reranker, rerankerFailed, cache, env, threads, applications>>

InitRequests ==
    /\ embedder = "None"
    /\ embedderFailed = FALSE
    /\ reranker = "None"
    /\ rerankerFailed = FALSE
    /\ cache = <<>>
    /\ env \in EnvsMatch
    /\ last = NoCall
    /\ threads = NoThreads
    /\ applications = NoApplications

NextRequests ==
    \/ ExtractPost
    \/ MatchPost
    \/ SkillGapPost
    \/ CourseGet
    \/ Tick
    \/ Expire
    \/ Respond
    \/ RequestReturn

\* Time passes, an expired timeout is noticed and a finished handler
\* returns; nothing makes the remote service answer.
SpecRequests ==
    /\ InitRequests
    /\ [][NextRequests]_vars
    /\ WF_vars(Tick)
    /\ WF_vars(Expire)
    /\ WF_vars(RequestReturn)

(***************************************************************************)
(* app.py: user_dashboard with USE_AI_MATCH=1                              *)
(***************************************************************************)
MaxDashJobs == 11    \* jobs of the long dashboards whose AI pass is followed

\* K of the AI pass, line 606
AiTopK == 10

AiTopCountAll(n) == n

\* line 606: K = min(10, len(prelim))
AiTopCount(n) == Min(AiTopK, n)

\* list[k:]
Drop(list, k) == SubSeq(list, Min(k, Len(list)) + 1, Len(list))

\* prelim.sort(key=lambda x: x[1], reverse=True), line 607
SortByScore(prelim) ==
    LET keyed == [i \in 1..Len(prelim) |->
                     [score |-> RInt(prelim[i].score), entry |-> prelim[i]]]
        sorted == SortDesc(keyed)
    IN  [i \in 1..Len(sorted) |-> sorted[i].entry]

\* lines 612-616: jd_inf of a job row
DashboardJdInfo(job) == [skills |-> JobSkillList(job), description |-> <<>>]

\* lines 610-618: match_resume_to_jd for every entry of top.  matchOf gives
\* what match_resume_to_jd returns for a job with the given skills cell.
DashboardAiEnriched(top, matchOf) ==
    [i \in 1..Len(top) |->
        [job |-> top[i].job, score |-> matchOf[top[i].job.skills].score,
         scoreKind |-> matchOf[top[i].job.skills].scoreKind,
         fb |-> matchOf[top[i].job.skills].fb, ai |-> TRUE]]

\* lines 608-619, given top and rest.  calls are the ids of the jobs
\* match_resume_to_jd was called for, in call order.
DashboardAiSplit(top, rest, matchOf) ==
    [calls |-> [i \in 1..Len(top) |-> top[i].job.id],
     prelim |-> DashboardAiEnriched(top, matchOf) \o rest]

\* user_dashboard, lines 604-619: the AI pass, given the sorted prelim
DashboardAiSorted(sorted, matchOf) ==
    DashboardAiSplit(Take(sorted, AiTopCount(Len(sorted))),
                     Drop(sorted, AiTopCount(Len(sorted))), matchOf)

\* what match_resume_to_jd returns for the jd_inf of a job with each skills
\* cell, in the state st the batch best_matches call left; remoteOf gives
\* what its request meets
DashboardMatches(resume_info, cells, st, remoteOf, o) ==
    [cell \in cells |->
        MatchResumeToJd(resume_info, DashboardJdInfo([skills |-> cell]), st,
                        remoteOf[cell], o)]

\* The rows of the dashboards followed: a job the resume covers and one it
\* does not.
DashAiCells == { <<"py">>, <<"sql">> }

DashAiJobs ==
    { [i \in 1..Len(cells) |->
          [id |-> i - 1, title |-> <<>>, description |-> <<"py", " ", "java">>,
           skills |-> cells[i]]] :
      cells \in SeqsUpTo(DashAiCells, MaxItems) \cup [1..MaxDashJobs -> DashAiCells] }

DashAiResume == [skills |-> << <<"py">> >>, education |-> <<>>, experience |-> <<>>]

\* What the requests of the AI pass meet: no connection, or an object with
\* a score far above or far below the cheap scores.
DashAiRemotes ==
    { [kind |-> "network_error"],
      [kind |-> "object", score |-> [kind |-> "number", val |-> RInt(150)], feedback |-> "text"],
      [kind |-> "object", score |-> [kind |-> "number", val |-> RInt(-50)],
       feedback |-> "missing"] }

\* A request of /user/dashboard with USE_AI_MATCH=1 and a credential
DashboardAiCall ==
    /\ Idle
    /\ env.useAiMatch
    /\ \E jobs \in DashAiJobs :
       \E c \in CourseFetches(DashAiResume.skills, RagState) :
       \E st \in {CourseRecsRagState(DashAiResume.skills, RagState, c)} :
       \E o \in Oracles(st,
                        [i \in 1..Len(jobs) |-> [id |-> jobs[i].id, text |-> JobText(jobs[i])]],
                        Len(jobs)) :
       \E r \in {DashboardPrelim(DashAiResume, <<>>, jobs, st, o)} :
       \E sorted \in {SortByScore(r.prelim)} :
          \E remoteOf \in [DashAiCells -> DashAiRemotes] :
          \E matchOf \in {DashboardMatches(DashAiResume, DashAiCells, r.st, remoteOf, o)} :
          \E ai \in {DashboardAiSorted(sorted, matchOf)} :
              /\ SetRag(r.st)
              /\ last' = [op |-> "user_dashboard", resume_info |-> DashAiResume,
                          jobs |-> jobs, semantic_by_id |-> r.semantic_by_id,
                          cheap |-> r.prelim, calls |-> ai.calls, remoteOf |-> remoteOf,
                          job_matches |-> ai.prelim, answers |-> o]
              /\ UNCHANGED <<cache, env, threads, applications>>

\* GEMINI_API_KEY set, USE_AI_MATCH on or off
EnvsDashAi == { [EnvDefault EXCEPT !.apiKey = TRUE, !.useAiMatch = u] : u \in BOOLEAN }

\* A process in which no model can be loaded, after its first call of
\* best_matches: every semantic score is a Jaccard score.
InitDashAi ==
    /\ embedder = "None"
    /\ embedderFailed = TRUE
    /\ reranker = "None"
    /\ rerankerFailed = TRUE
    /\ cache = <<>>
    /\ env \in EnvsDashAi
    /\ last = NoCall
    /\ threads = NoThreads
    /\ applications = NoApplications

NextDashAi == DashboardCall \/ DashboardAiCall \/ Return

SpecDashAi == InitDashAi /\ [][NextDashAi]_vars

(***************************************************************************)
(* app.py: POST /user/apply/<job_id>.  Flask's development server and any  *)
(* WSGI server with several workers run request handlers side by side, so  *)
(* a handler is modelled by its steps: the checks before the store is      *)
(* touched, the read of applications.csv, the append to it.                *)
(***************************************************************************)
MaxRequests == 2

\* the request handlers that can be running at the same time
ApplyRequests == 1..MaxRequests

\* the session of a request: nobody logged in, or user 1 or 2 with role User
ApplySessions ==
    { [user_id |-> 0, role |-> "none"], [user_id |-> 1, role |-> "User"],
      [user_id |-> 2, role |-> "User"] }

\* the ids of jobs.csv, and the ids a request can name
PostedJobIds == {1}
RequestedJobIds == PostedJobIds \cup {2}

\* get_user_applications: the job ids of the rows of user_id
GetUserApplications(rows, user_id) ==
    { rows[i].job_id : i \in { j \in DOMAIN rows : rows[j].user_id = user_id } }

\* record_application: one row appended (applied_at, the time of the call,
\* is left out)
RecordApplication(rows, user_id, job_id, resume_filename) ==
    Append(rows, [user_id |-> user_id, job_id |-> job_id,
                  resume_filename |-> resume_filename])

\* no request is being handled
ApplyIdle ==
    [pc |-> "idle", user_id |-> 0, job_id |-> 0, resume_filename |-> "", flash |-> ""]

\* apply_for_job, lines 1428-1460: the session, the job and the resume are
\* checked; each failure redirects without touching the store
ApplyStart(t) ==
    /\ threads[t].pc = "idle"
    /\ \E session \in ApplySessions, job_id \in RequestedJobIds,
          resume_filename \in {"", "user_resume.pdf"} :
          threads' = [threads EXCEPT ![t] =
             IF session.role # "User"
             THEN [ApplyIdle EXCEPT !.pc = "done", !.flash = "Please log in to apply for jobs."]
             ELSE IF job_id \notin PostedJobIds
             THEN [ApplyIdle EXCEPT !.pc = "done", !.user_id = session.user_id,
                                    !.flash = "Invalid job selected."]
             ELSE IF resume_filename = ""
             THEN [ApplyIdle EXCEPT !.pc = "done", !.user_id = session.user_id,
                                    !.flash = "Please upload your resume first."]
             ELSE [pc |-> "read", user_id |-> session.user_id, job_id |-> job_id,
                   resume_filename |-> resume_filename, flash |-> ""]]
    /\ UNCHANGED <<embedder, embedderFailed, reranker, rerankerFailed, cache, env, last,
                   applications>>

\* lines 1462-1464: the store is read and the job looked up in the user's
\* applications
ApplyRead(t) ==
    /\ threads[t].pc = "read"
    /\ threads' = [threads EXCEPT ![t] =
          IF threads[t].job_id \in GetUserApplications(applications, threads[t].user_id)
          THEN [@ EXCEPT !.pc = "done", !.flash = "You have already applied for this job."]
          ELSE [@ EXCEPT !.pc = "record"]]
    /\ UNCHANGED <<embedder, embedderFailed, reranker, rerankerFailed, cache, env, last,
                   applications>>

\* lines 1465-1467: the row is appended
ApplyRecord(t) ==
    /\ threads[t].pc = "record"
    /\ applications' = RecordApplication(applications, threads[t].user_id,
                                         threads[t].job_id, threads[t].resume_filename)
    /\ threads' = [threads EXCEPT ![t] =
          [@ EXCEPT !.pc = "done", !.flash = "Successfully applied for the job!"]]
    /\ UNCHANGED <<embedder, embedderFailed, reranker, rerankerFailed, cache, env, last>>

\* line 1469: the redirect is sent; the worker takes the next request
ApplyRespond(t) ==
    /\ threads[t].pc = "done"
    /\ threads' = [threads EXCEPT ![t] = ApplyIdle]
    /\ UNCHANGED <<embedder, embedderFailed, reranker, rerankerFailed, cache, env, last,
                   applications>>

InitApply ==
    /\ embedder = "None"
    /\ embedderFailed = FALSE
    /\ reranker = "None"
    /\ rerankerFailed = FALSE
    /\ cache = <<>>
    /\ env = EnvDefault
    /\ last = NoCall
    /\ threads = [t \in ApplyRequests |-> ApplyIdle]
    /\ applications = NoApplications

NextApply ==
    \E t \in ApplyRequests : ApplyStart(t) \/ ApplyRead(t) \/ ApplyRecord(t) \/ ApplyRespond(t)

SpecApply == InitApply /\ [][NextApply]_vars

(***************************************************************************)
(* Properties of rag.best_matches                                          *)
(***************************************************************************)
IsBestMatches == last.op = "best_matches"

SortedDesc(list) ==
    \A i, j \in 1..Len(list) : i < j => RLe(list[j].score, list[i].score)

\* ties of list stand in input order
TiesInInputOrder(list) ==
    \A i, j \in 1..Len(list) :
        (i < j /\ list[i].score = list[j].score) => list[i].pos < list[j].pos

\* the place of candidate pos in the Phase 1 ranking
Phase1Rank(pos) == CHOOSE k \in 1..Len(last.phase1) : last.phase1[k].pos = pos

\* ties of list stand in the order the Phase 1 ranking gave them
TiesInPhase1Order(list) ==
    \A i, j \in 1..Len(list) :
        (i < j /\ list[i].score = list[j].score)
            => Phase1Rank(list[i].pos) < Phase1Rank(list[j].pos)

C10_ScoresInUnitInterval ==
    IsBestMatches =>
        \A i \in 1..Len(last.result) :
            RLe(Zero, last.result[i].score) /\ RLe(last.result[i].score, One)

\* the embedding path returned a candidate whose dot product lay outside [0, 1]
C10_Witness ==
    /\ IsBestMatches
    /\ last.path = "embeddings"
    /\ \E i \in 1..Len(last.result) :
          /\ ~RLe(last.answers.enc.dots[last.result[i].text], One)
          /\ last.result[i].score = One
    /\ \E i \in 1..Len(last.result) :
          /\ RLt(last.answers.enc.dots[last.result[i].text], Zero)
          /\ last.result[i].score = Zero

(***************************************************************************)
(* Properties of the composite scorers                                     *)
(***************************************************************************)
IsScorerCall == last.op \in {"_local_match", "composite_match", "compute_match"}
IsDashboard == last.op = "user_dashboard"
InUnit(x) == RLe(Zero, x) /\ RLe(x, One)

\* C5: with coverage, semantic and the coverage weight all in [0, 1], the
\* score _local_match, composite_match and compute_match return is an
\* integer from 0 to 100.
C5_LocalScoreInRange ==
    (IsScorerCall /\ InUnit(last.coverage) /\ InUnit(last.semantic) /\ InUnit(env.covW))
        => last.score \in 0..100

\* compute_match at full coverage and full similarity under the default weight
C5_Witness ==
    /\ last.op = "compute_match"
    /\ env.covW = CoverageWeightDefault
    /\ last.coverage = One
    /\ last.semantic = One
    /\ last.score = 100

\* C6: in _local_match, composite_match, compute_match and the batch loop
\* of the dashboard, coverage 0 with semantic 0 gives the score 0 whatever
\* the coverage weight is.
C6_ZeroGivesZero ==
    /\ (IsScorerCall /\ last.coverage = Zero /\ last.semantic = Zero) => last.score = 0
    /\ IsDashboard =>
          \A i \in 1..Len(last.job_matches) :
             (last.job_matches[i].coverage = Zero /\ last.job_matches[i].semantic = Zero)
                 => last.job_matches[i].score = 0

\* _local_match with nothing covered and no similarity, under a weight above 1
C6_Witness ==
    /\ last.op = "_local_match"
    /\ env.covW = Rat(3, 2)
    /\ last.J # <<>>
    /\ last.coverage = Zero
    /\ last.semantic = Zero
    /\ last.score = 0

\* norm: the set of the stripped, lower-cased, non-empty entries of a list
Norm(list) == {Lower(Strip(list[i])) : i \in 1..Len(list)} \ {<<>>}

NormCoverage(R, J) ==
    IF Norm(J) # {} THEN Rat(Cardinality(Norm(R) \cap Norm(J)), Cardinality(Norm(J)))
    ELSE Zero

\* C7: the coverage every scorer uses for the skill lists R and J is
\* |norm(R) /\ norm(J)| / |norm(J)|, and 0 when norm(J) is empty; so the
\* scorers of job_matcher and of app.py agree on the same lists.
C7_CoverageIsSetRatio ==
    /\ IsScorerCall => last.coverage = NormCoverage(last.R, last.J)
    /\ IsDashboard =>
          \A i \in 1..Len(last.job_matches) :
             last.job_matches[i].coverage =
                 NormCoverage(last.resume_info.skills, JobSkillList(last.job_matches[i].job))

\* C8: the score and feedback the batch loop of the dashboard gives a job
\* from semantic_by_id are those composite_match computes for the same
\* resume and job from the same semantic value.
C8_BatchEqualsComposite ==
    IsDashboard =>
        \A i \in 1..Len(last.job_matches) :
           LET e == last.job_matches[i]
               single == CompositeMatchGiven(last.resume_info, e.job,
                                             last.semantic_by_id[e.job.id])
           IN  e.batch => (e.score = single.score /\ e.fb = single.fb)

\* a dashboard of two jobs, one scored from half coverage and a similarity
\* strictly between 0 and 1 that the weighted sum does not round trivially
C8_Witness ==
    /\ IsDashboard
    /\ Len(last.job_matches) = 2
    /\ \E i \in 1..2 :
          /\ last.job_matches[i].batch
          /\ last.job_matches[i].coverage = Rat(1, 2)
          /\ RLt(Zero, last.job_matches[i].semantic)
          /\ RLt(last.job_matches[i].semantic, One)
          /\ env.covW = CoverageWeightDefault
          /\ last.job_matches[i].score \in 1..99

(***************************************************************************)
(* Properties of job_matcher.match_resume_to_jd                            *)
(***************************************************************************)
IsRemoteMatch == last.op = "match_resume_to_jd" /\ last.remote.kind # "none"

\* the remote-path failures: network error, non-200 status, no text
\* content, unparseable JSON, missing or non-numeric score field
RemoteFailed(remote) ==
    \/ remote.kind \in {"network_error", "status", "body_not_json", "no_candidates",
                        "no_text", "text_not_json", "not_object"}
    \/ remote.kind = "object" /\ remote.score.kind \in {"missing", "string"}

\* C2: with remote matching enabled and configured, on every remote-path
\* failure match_resume_to_jd returns the (score, feedback) _local_match
\* returns for the same pair.
C2_FailureEqualsLocal ==
    (IsRemoteMatch /\ RemoteFailed(last.remote))
        => (last.scoreKind = "int" /\ last.score = last.local.score /\ last.fb = last.local.fb)

\* C4: whatever the remote service answers, the score match_resume_to_jd
\* returns is an integer from 0 to 100.
C4_MatchScoreInRange ==
    last.op = "match_resume_to_jd" => (last.scoreKind = "int" /\ last.score \in 0..100)

(***************************************************************************)
(* Properties of the extraction entry points                               *)
(***************************************************************************)
IsExtraction ==
    last.op \in {"extract_resume_entities", "parse_resume_file", "parse_jd_file"}

\* C1: with a credential configured and no cache entry for the text, when
\* the remote service answers with a non-200 status extract_resume_entities
\* returns what _local_extract_entities returns on the same text.
C1_Non200EqualsLocal ==
    (last.op = "extract_resume_entities" /\ env.apiKey /\ ~last.hit
        /\ last.remote.kind = "status")
        => last.result = LocalExtractEntities(last.text)

\* C3: whatever extract_resume_entities, parse_resume_file and
\* parse_jd_file return, on success and on every error path, holds the four
\* keys skills, experience, education and keywords.
C3_FourKeys ==
    IsExtraction =>
        DOMAIN last.result = {"skills", "experience", "education", "keywords"}

(***************************************************************************)
(* Properties of rag.best_matches: size of the result, Jaccard fallback    *)
(***************************************************************************)
\* the score Phase 1 gives the candidate at place i of the input, computed
\* from the answers of the call
Phase1Score(i) ==
    IF last.path = "jaccard"
    THEN Jaccard(TokSet(last.query), TokSet(last.items[i].text))
    ELSE Cosine(last.answers.enc.dots[last.items[i].text])

ResultPlaces == {last.result[k].pos : k \in 1..Len(last.result)}

\* C11: best_matches returns min(top_k, n) entries, each a different
\* candidate of the input with its id and text, and nothing for no
\* candidates; no candidate left out scores higher than a returned one in
\* the ranking that was returned (Phase 1 ranks all n candidates, the
\* rerank ranks the candidates Phase 1 preselected).
C11_TopKOfCandidates ==
    IsBestMatches =>
        /\ Len(last.result) = Min(last.top_k, Len(last.items))
        /\ \A k \in 1..Len(last.result) :
              /\ last.result[k].pos \in 1..Len(last.items)
              /\ last.result[k].id = last.items[last.result[k].pos].id
              /\ last.result[k].text = last.items[last.result[k].pos].text
        /\ Cardinality(ResultPlaces) = Len(last.result)
        /\ last.path \in {"embeddings", "jaccard"} =>
              \A i \in (1..Len(last.items)) \ ResultPlaces :
                 \A k \in 1..Len(last.result) : RLe(Phase1Score(i), last.result[k].score)
        /\ last.path = "rerank" =>
              \A j \in 1..Len(last.phase1) :
                 last.phase1[j].pos \notin ResultPlaces =>
                    \A k \in 1..Len(last.result) :
                       RLe(last.answers.pred.raw[last.phase1[j].text],
                           last.answers.pred.raw[last.result[k].text])

\* two candidates, RERANK_PRESELECT=1 and top_k=1: the embedding ranking
\* returns the second candidate, the first one scores lower and is left out
C11_Witness ==
    /\ IsBestMatches
    /\ last.path = "embeddings"
    /\ env.rerankPreselect = 1
    /\ Len(last.items) = 2
    /\ last.top_k = 1
    /\ Len(last.result) = 1
    /\ last.result[1].pos = 2
    /\ RLt(Phase1Score(1), last.result[1].score)

\* the lower-cased whitespace tokens of a text, as a set
Tokens(t) == {Lower(Split(t)[i]) : i \in 1..Len(Split(t))}

\* |Q /\ T| / |Q \/ T|, and 0 when either set is empty
JaccardSimilarity(Q, T) ==
    IF Q = {} \/ T = {} THEN Zero ELSE Rat(Cardinality(Q \cap T), Cardinality(Q \cup T))

\* C12: when no embedding model could be loaded and there is no reranker,
\* every entry best_matches returns carries the Jaccard similarity of the
\* token sets of the query and of its text, and the entries are in
\* descending order of it.
C12_JaccardFallback ==
    (IsBestMatches /\ embedder = "None" /\ reranker = "None") =>
        /\ \A k \in 1..Len(last.result) :
              last.result[k].score =
                  JaccardSimilarity(Tokens(last.query), Tokens(last.result[k].text))
        /\ SortedDesc(last.result)

\* the query "py sql" against "py java" and "PY sql", no model loaded:
\* "PY sql" comes first with 1, "py java" second with 1/3
C12_Witness ==
    /\ IsBestMatches
    /\ embedder = "None" /\ embedderFailed
    /\ reranker = "None"
    /\ last.query = <<"py", " ", "sql">>
    /\ Len(last.result) = 2
    /\ last.result[1].text = <<"PY", " ", "sql">> /\ last.result[1].score = One
    /\ last.result[2].text = <<"py", " ", "java">> /\ last.result[2].score = Rat(1, 3)

(***************************************************************************)
(* Properties of the model loads of rag.py                                 *)
(***************************************************************************)
EmbedderSettled == embedder # "None" \/ embedderFailed
RerankerSettled == reranker # "None" \/ rerankerFailed

\* one step of the process, for the embedder and for the reranker: a call
\* that attempts the load leaves the model loaded or failed; once it is
\* loaded or failed no call attempts the load again and the state stays
LoadOnceStep ==
    /\ ~(embedder' # "None" /\ embedderFailed')
    /\ ~(reranker' # "None" /\ rerankerFailed')
    /\ (last'.op \in {"best_matches", "embed_texts", "warmup"} /\ last'.attempts.embedder)
          => (embedder' # "None" \/ embedderFailed')
    /\ (last'.op \in {"best_matches", "embed_texts", "warmup"} /\ last'.attempts.reranker)
          => (reranker' # "None" \/ rerankerFailed')
    /\ EmbedderSettled =>
          /\ embedder' = embedder /\ embedderFailed' = embedderFailed
          /\ last'.op \in {"best_matches", "embed_texts", "warmup"} => ~last'.attempts.embedder
    /\ RerankerSettled =>
          /\ reranker' = reranker /\ rerankerFailed' = rerankerFailed
          /\ last'.op \in {"best_matches", "embed_texts", "warmup"} => ~last'.attempts.reranker

\* C13: over any series of calls of best_matches, embed_texts and warmup a
\* load of the embedder, and of the reranker, is attempted in at most one
\* call; after it the model is loaded or failed, never both, and that never
\* changes: a failed load is not retried, a loaded handle is not replaced.
C13_LoadOnce == [][LoadOnceStep]_vars

\* a call of best_matches made after the embedder load had failed and the
\* reranker had been loaded: it attempts neither load
C13_Witness ==
    /\ last.op = "best_matches"
    /\ last.items # <<>>
    /\ embedderFailed /\ embedder = "None"
    /\ reranker = "model"
    /\ ~last.attempts.embedder
    /\ ~last.attempts.reranker

(***************************************************************************)
(* Properties of the model loads under threads                             *)
(***************************************************************************)
RECURSIVE SumOver(_, _)
SumOver(S, f) ==
    IF S = {} THEN 0
    ELSE LET x == CHOOSE y \in S : TRUE IN f[x] + SumOver(S \ {x}, f)

EmbedderConstructions == SumOver(DOMAIN threads, [t \in DOMAIN threads |-> threads[t].embCtor])
RerankerConstructions == SumOver(DOMAIN threads, [t \in DOMAIN threads |-> threads[t].rrCtor])

AllDone == \A t \in DOMAIN threads : threads[t].pc = "done"

\* C14: when two threads make their first call at the same time, the
\* constructor of the embedding model runs at most once in total and both
\* threads get the same handle; likewise for the reranker.
C14_ConstructedOnce ==
    /\ EmbedderConstructions <= 1
    /\ RerankerConstructions <= 1
    /\ AllDone => \A t, u \in DOMAIN threads :
                     threads[t].emb = threads[u].emb /\ threads[t].rr = threads[u].rr

(***************************************************************************)
(* Properties of the extraction cache                                      *)
(***************************************************************************)
\* one step of the process: no cache entry is removed or changed; a call of
\* extract_resume_entities that finds an entry under its key issues no
\* request and returns the entry; a call that leaves an entry under its key
\* has returned that entry
CacheStep ==
    /\ \A k \in DOMAIN cache : k \in DOMAIN cache' /\ cache'[k] = cache[k]
    /\ (last'.op = "extract_resume_entities" /\ env.apiKey /\ last'.text # <<>>) =>
          /\ CacheKey(last'.extract_type, last'.text) \in DOMAIN cache =>
                /\ last'.remote.kind = "none"
                /\ last'.result = cache[CacheKey(last'.extract_type, last'.text)]
          /\ CacheKey(last'.extract_type, last'.text) \in DOMAIN cache' =>
                last'.result = cache'[CacheKey(last'.extract_type, last'.text)]

Requests ==
    IF last.op \in {"find_skill_gap", "fetch_courses_external", "recommend_courses_rag"}
    THEN last.requests
    ELSE 0

\* C16: when no remote service credential is configured, none of
\* find_skill_gap, fetch_courses_external and recommend_courses_rag issues
\* a network request.
C16_LocalWithoutCredential == ~env.apiKey => Requests = 0

(***************************************************************************)
(* Properties of _canon_skill                                              *)
(***************************************************************************)
\* C17: _canon_skill applied to its own result returns it unchanged, and no
\* value of ALIASES is canonicalized to anything but itself.
C17_CanonIdempotent ==
    /\ \A i \in 1..Len(ALIASES) : CanonSkill(ALIASES[i].value) = ALIASES[i].value
    /\ (last.op = "_canon_skill" /\ last.again) => last.result = last.s

\* " JS " gave "javascript", and "javascript" gave itself
C17_Witness ==
    /\ last.op = "_canon_skill"
    /\ last.again
    /\ last.first = <<" ", "JS", " ">>
    /\ last.s = <<"javascript">>
    /\ last.result = <<"javascript">>

(***************************************************************************)
(* Properties of the entities extract_resume_entities returns              *)
(***************************************************************************)
\* no empty string, no entry twice, every entry a fixed point of _canon_skill
CanonicalSkills(skills) ==
    /\ \A i \in 1..Len(skills) : skills[i] # <<>> /\ CanonSkill(skills[i]) = skills[i]
    /\ \A i, j \in 1..Len(skills) : skills[i] = skills[j] => i = j

\* C18: in every result of extract_resume_entities the skills list has no
\* empty string and no duplicates, and every skill is a fixed point of
\* _canon_skill.
C18_SkillsCanonical ==
    last.op = "extract_resume_entities" => CanonicalSkills(last.result.skills)

\* the last call ran both strategies: a credential, not remote-only, no
\* cache entry, and a parsed object from the remote service
IsBlended ==
    /\ last.op = "extract_resume_entities"
    /\ env.apiKey
    /\ ~env.llmOnly
    /\ last.remote.kind = "object"

\* the remote list when it is non-empty, capped, else the local list
RemoteElseLocal(remote, local, cap) == IF remote # <<>> THEN Take(remote, cap) ELSE local

\* C19: in blended mode skills is the union of the normalized local and
\* remote skills, and experience, education and keywords are the remote
\* list capped at 30, 20 and 50 when it is non-empty and the local
\* extractor's list when it is empty.
C19_BlendedFields ==
    IsBlended =>
        LET remote == EnsureTypes(last.remote.parsed)
            local == LocalExtractEntities(last.text)
        IN  /\ Range(last.result.skills) =
                   {NormalizeSkill(x) : x \in Range(local.skills)}
                       \cup {NormalizeSkill(x) : x \in Range(remote.skills)}
            /\ last.result.experience = RemoteElseLocal(remote.experience, local.experience, 30)
            /\ last.result.education = RemoteElseLocal(remote.education, local.education, 20)
            /\ last.result.keywords = RemoteElseLocal(remote.keywords, local.keywords, 50)

(***************************************************************************)
(* Properties of extract_text_from_file                                    *)
(***************************************************************************)
\* backend k of the file read gave text that is not blank
GaveText(k) == last.file.backends[k].ok /\ Strip(last.file.backends[k].text) # <<>>

\* C20: extract_text_from_file returns None for an unsupported extension and
\* for a .docx or .txt that cannot be read; for a .pdf it calls the backends
\* in order, a later one only when every earlier one raised or gave blank
\* text, and returns the stripped text of the first that gave text, else ''.
C20_TextOrNone ==
    last.op = "extract_text_from_file" =>
        /\ last.file.ext \notin {".pdf", ".docx", ".txt"} => last.result = NoText
        /\ (last.file.ext \in {".docx", ".txt"} /\ ~last.file.backends[1].ok)
               => last.result = NoText
        /\ last.file.ext = ".pdf" =>
              /\ ~last.result.none
              /\ \A k \in 1..last.tried : \A j \in 1..(k - 1) : ~GaveText(j)
              /\ \A k \in 1..3 :
                    (GaveText(k) /\ \A j \in 1..(k - 1) : ~GaveText(j))
                        => /\ last.tried = k
                           /\ last.result.text = Strip(last.file.backends[k].text)
              /\ (\A k \in 1..3 : ~GaveText(k))
                    => last.tried = 3 /\ last.result.text = <<>>

\* PyPDF2 gave blank text, pdfminer raised, PyMuPDF gave the text returned
C20_Witness ==
    /\ last.op = "extract_text_from_file"
    /\ last.file.ext = ".pdf"
    /\ last.file.backends = <<Reads(<<" ">>), ReadFails, Reads(<<"sql">>)>>
    /\ last.tried = 3
    /\ last.result = TextOf(<<"sql">>)

(***************************************************************************)
(* Properties of the requests in flight                                    *)
(***************************************************************************)
\* C21: every request of the core is issued with a timeout, so that an
\* operation waiting for the remote service eventually returns even when
\* the service never answers.
C21_EveryRequestReturns == IsWaiting ~> Idle

(***************************************************************************)
(* Properties of the AI pass of user_dashboard                             *)
(***************************************************************************)
IsAiDashboard == last.op = "user_dashboard" /\ env.useAiMatch

\* the cheap entry of the job with the given id
CheapOf(id) == last.cheap[CHOOSE i \in 1..Len(last.cheap) : last.cheap[i].job.id = id]

Called == {last.calls[i] : i \in 1..Len(last.calls)}

\* C22: with USE_AI_MATCH=1 over N jobs match_resume_to_jd is called once
\* for each of min(10, N) jobs, no uncalled job has a higher cheap score
\* than a called one, and every uncalled job is in the output once with
\* its cheap score and feedback.
C22_TopKOnly ==
    IsAiDashboard =>
        /\ Len(last.calls) = Min(10, Len(last.jobs))
        /\ Cardinality(Called) = Len(last.calls)
        /\ \A c \in Called : \A i \in 1..Len(last.jobs) :
              last.jobs[i].id \notin Called => CheapOf(c).score >= CheapOf(last.jobs[i].id).score
        /\ Len(last.job_matches) = Len(last.jobs)
        /\ \A i \in 1..Len(last.jobs) :
              last.jobs[i].id \notin Called =>
                 \E k \in 1..Len(last.job_matches) :
                    /\ last.job_matches[k] = CheapOf(last.jobs[i].id)
                    /\ \A k2 \in 1..Len(last.job_matches) :
                          last.job_matches[k2].job.id = last.jobs[i].id => k2 = k

\* eleven jobs, the one left out of the AI pass is the first of the list
\* and has a lower cheap score than every job called
C22_Witness ==
    /\ IsAiDashboard
    /\ Len(last.jobs) = 11
    /\ Len(last.calls) = 10
    /\ 0 \notin Called
    /\ \A c \in Called : CheapOf(c).score > CheapOf(0).score
    /\ last.job_matches[11] = CheapOf(0)

\* C23: the job matches user_dashboard produces are sorted by
\* non-increasing score, with USE_AI_MATCH off and on.
C23_MatchesSortedByScore ==
    last.op = "user_dashboard" =>
        \A i, j \in 1..Len(last.job_matches) :
            i < j => last.job_matches[i].score >= last.job_matches[j].score

(***************************************************************************)
(* Properties of the cross-encoder phase of best_matches                   *)
(***************************************************************************)
\* the cross-encoder phase of the last call had what it needs: a reranker,
\* two or more preselected items, a prediction that did not fail
RerankPossible ==
    /\ reranker # "None"
    /\ Len(last.phase1) >= 2
    /\ last.answers.pred.ok

\* C24: best_matches returns the cross-encoder ranking only when a reranker
\* is loaded, Phase 1 preselected two or more items and the prediction did
\* not fail; otherwise the result is the first top_k entries of the Phase 1
\* ranking with their Phase 1 (embedding or Jaccard) scores.
C24_FallbackIsPhase1 ==
    (IsBestMatches /\ last.items # <<>>) =>
        /\ last.path = "rerank" => RerankPossible
        /\ ~RerankPossible =>
              /\ last.path \in {"embeddings", "jaccard"}
              /\ last.result = Take(last.phase1, last.top_k)
              /\ \A k \in 1..Len(last.result) :
                    last.result[k].score = Phase1Score(last.result[k].pos)

\* a loaded reranker whose prediction raised over two preselected items,
\* one of which is returned with its embedding score
C24_Witness ==
    /\ IsBestMatches
    /\ reranker # "None"
    /\ Len(last.phase1) = 2
    /\ ~last.answers.pred.ok
    /\ last.path = "embeddings"
    /\ last.top_k = 1
    /\ last.result = <<last.phase1[1]>>

(***************************************************************************)
(* Properties of the course cache                                          *)
(***************************************************************************)
IsFetch == last.op = "fetch_courses_external"

\* the cache holds an entry written for a list of the same skills
SameSetCached(skills) ==
    \E key \in DOMAIN cache : Range(key[2]) = Range(SelectSeq(skills, NonEmpty))

\* a call of fetch_courses_external for skills of which the cache holds an
\* entry, in whatever order and number they were asked then, is served
\* from the cache
SameSetStep ==
    (last'.op = "fetch_courses_external" /\ SameSetCached(last'.skills))
        => last'.requests = 0

\* C25: two calls of fetch_courses_external whose skill lists hold the same
\* skills, in any order and with or without repeats, use the same cache
\* entry: the second is served from the cache the first wrote.
C25_KeyedBySkillSet == [][SameSetStep]_vars

\* C26: recommend_courses never raises: with courses.csv missing, without
\* a title, url or skills column, or with empty skills cells, and with no
\* missing skills, it still returns a list.
C26_RecommendNeverRaises == last.op = "recommend_courses" => ~last.raised

(***************************************************************************)
(* Properties of the failure paths of extract_resume_entities              *)
(***************************************************************************)
\* the request of the call l failed: no connection, a status other than
\* 200, no text in the response, or text that is not a JSON object
RequestFailed(l) == l.remote.kind \notin {"object", "none"}

\* one step that is a call of extract_resume_entities with a credential and
\* a text: the cache changes only when the response was parsed, and then
\* only under the key of the call; a failed request leaves the cache as it
\* was, without an entry under the key; a call that finds no entry under
\* its key issues a request
WriteStep ==
    (last'.op = "extract_resume_entities" /\ env.apiKey /\ last'.text # <<>>) =>
        LET key == CacheKey(last'.extract_type, last'.text)
        IN  /\ cache' # cache =>
                /\ last'.remote.kind = "object"
                /\ DOMAIN cache' = DOMAIN cache \cup {key}
                /\ \A k \in DOMAIN cache : cache'[k] = cache[k]
            /\ RequestFailed(last') => cache' = cache /\ key \notin DOMAIN cache'
            /\ key \notin DOMAIN cache => last'.remote.kind # "none"

\* C27: extract_resume_entities writes a cache entry only after a response
\* with status 200 was parsed; every failure path leaves the cache
\* unchanged, so the next call with the same text and type, finding no
\* entry, issues a request again.
C27_CacheWrittenOnSuccessOnly == [][WriteStep]_vars

\* a failed request after another text was cached: the cache still holds
\* that entry alone
C27_Witness ==
    /\ last.op = "extract_resume_entities"
    /\ env.apiKey
    /\ last.remote.kind = "text_not_json"
    /\ cache # <<>>
    /\ CacheKey(last.extract_type, last.text) \notin DOMAIN cache

(***************************************************************************)
(* Properties of cached course lists                                       *)
(***************************************************************************)
\* the cache key of the call l of fetch_courses_external
FetchKey(l) == CourseCacheKey(SelectSeq(l.skills, NonEmpty))

\* the skills recommend_courses_rag hands on
RagSkills(l) == StripNonBlank(l.skills)

\* C28 as stated: a call of fetch_courses_external that went to the network
\* always leaves its result, the empty list too, in the cache under its key.
C28_MissAlwaysCached ==
    (IsFetch /\ last.requests > 0) =>
        /\ FetchKey(last) \in DOMAIN cache
        /\ cache[FetchKey(last)] = last.result

\* one step of the process: no entry is changed or removed; a call of
\* fetch_courses_external that went to the network and whose write did not
\* fail leaves its result under its key; a call that finds an entry issues
\* no request and returns the entry; recommend_courses_rag finding an
\* empty entry issues no request and returns what recommend_courses gives
CachedListStep ==
    /\ \A k \in DOMAIN cache : k \in DOMAIN cache' /\ cache'[k] = cache[k]
    /\ (last'.op = "fetch_courses_external" /\ last'.requests > 0 /\ last'.writeOK) =>
          /\ FetchKey(last') \in DOMAIN cache'
          /\ cache'[FetchKey(last')] = last'.result
    /\ (last'.op = "fetch_courses_external" /\ FetchKey(last') \in DOMAIN cache) =>
          /\ last'.requests = 0
          /\ last'.result = cache[FetchKey(last')]
    /\ (/\ last'.op = "recommend_courses_rag"
        /\ CourseCacheKey(RagSkills(last')) \in DOMAIN cache
        /\ cache[CourseCacheKey(RagSkills(last'))] = <<>>) =>
          /\ last'.requests = 0
          /\ last'.result = RecommendCourses(RagSkills(last'), last'.csv, RecommendTopN).list

\* C28, amended: on a cache miss fetch_courses_external leaves its result,
\* the empty list too, in the cache unless writing the file fails; every
\* later call that finds the entry returns it without a request, and
\* recommend_courses_rag finding an empty entry falls back to the local CSV
\* recommender.
C28_CachedListServes == [][CachedListStep]_vars

\* recommend_courses_rag served by an empty cached list: no request, the
\* courses of courses.csv returned
C28_Witness ==
    /\ last.op = "recommend_courses_rag"
    /\ CourseCacheKey(RagSkills(last)) \in DOMAIN cache
    /\ cache[CourseCacheKey(RagSkills(last))] = <<>>
    /\ last.answers = <<>>
    /\ last.requests = 0
    /\ last.result # <<>>

(***************************************************************************)
(* Properties of the applications store                                    *)
(***************************************************************************)
\* C29: after any interleaving of apply_for_job requests, two by the same
\* user for the same job included, applications.csv holds at most one row
\* for every pair of user and job.
C29_OneRowPerUserAndJob ==
    \A i, j \in DOMAIN applications :
        (applications[i].user_id = applications[j].user_id
            /\ applications[i].job_id = applications[j].job_id) => i = j

(***************************************************************************)
(* Properties of the rescaled cross-encoder scores                         *)
(***************************************************************************)
\* the raw score the cross-encoder gave a preselected or returned item
RawOf(item) == last.answers.pred.raw[item.text]

RawsAllEqual == \A i, j \in DOMAIN last.phase1 : RawOf(last.phase1[i]) = RawOf(last.phase1[j])

\* an item with the lowest raw score of the preselected ones
HasLowestRaw(item) == \A i \in DOMAIN last.phase1 : ~RLt(RawOf(last.phase1[i]), RawOf(item))

\* C30: when the cross-encoder phase of best_matches succeeds on two or
\* more preselected items whose raw scores differ, the first returned item
\* has score 1 and the item ranked lowest (one of lowest raw score, the
\* last item when all are returned) has score 0; when all raw scores are
\* equal every returned item has score 0.
C30_RescaledToUnitRange ==
    (IsBestMatches /\ last.path = "rerank") =>
        /\ Len(last.phase1) >= 2
        /\ ~RawsAllEqual =>
              /\ last.result # <<>> => last.result[1].score = One
              /\ \A k \in DOMAIN last.result :
                    last.result[k].score = Zero <=> HasLowestRaw(last.result[k])
              /\ Len(last.result) = Len(last.phase1) =>
                    last.result[Len(last.result)].score = Zero
        /\ RawsAllEqual => \A k \in DOMAIN last.result : last.result[k].score = Zero

\* two preselected items with raw scores 2 and -1, both returned: the
\* first has score 1, the last score 0
C30_Witness ==
    /\ IsBestMatches
    /\ last.path = "rerank"
    /\ Len(last.phase1) = 2
    /\ Len(last.result) = 2
    /\ ~RawsAllEqual
    /\ last.result[1].score = One
    /\ last.result[2].score = Zero
    /\ RawOf(last.result[1]) = RInt(2)
    /\ RawOf(last.result[2]) = RInt(-1)

====
